---- MODULE Spec2Model ----
(***************************************************************************)
(* Best-execution quote router of server/src/services/swap.ts:            *)
(* symbol resolution, candidate path enumeration, the PancakeSwap v2 and  *)
(* v3 quoters with their ranking and split search, quotePancakeBest and   *)
(* simulateSwapCostNow.                                                    *)
(*                                                                         *)
(* An address is a pair <<digits, case>>: the hex digits of the address   *)
(* and the letter case it is written in ("M" checksum mixed case, "L"     *)
(* lower case).  String.toLowerCase keeps the digits and sets the case.   *)
(* Amounts are raw integers (bigint in the source).                        *)
(***************************************************************************)
EXTENDS Integers, Sequences, FiniteSets, TLC

VARIABLES
    req,    \* the parameters of the call under way (params of the entry point)
    env,    \* process environment: intermediates, address overrides, venue liveness
    v2,     \* the invocation of quotePcsV2BestExactIn
    v3,     \* the invocation of quotePcsV3BestExactIn
    top,    \* the entry point's own continuation and its settled outcome
    dec,    \* decimalsCache and the fetchTokenDecimals calls under way
    sim     \* the dry-run simulator, its log files and the reset request

vars == <<req, env, v2, v3, top, dec, sim>>

----------------------------------------------------------------------------
(* Bounds of the model *)

\* largest raw output a venue call answers with
MaxOut == 2

----------------------------------------------------------------------------
(* Addresses and symbols *)

Lower(addr) == <<addr[1], "L">>

DEFAULT_WBNB == <<"bb4c", "M">>

\* KNOWN_TOKENS: BNB aliases WBNB, BTC aliases BTCB; USDC and BTCB are
\* written in lower case in the table.
KNOWN_TOKENS ==
    [s \in {"WBNB", "BNB", "BUSD", "USDT", "USDC", "BTCB", "BTC", "ETH", "CAKE"} |->
        CASE s = "WBNB" -> DEFAULT_WBNB
          [] s = "BNB"  -> DEFAULT_WBNB
          [] s = "BUSD" -> <<"e9e7", "M">>
          [] s = "USDT" -> <<"55d3", "M">>
          [] s = "USDC" -> <<"8ac7", "L">>
          [] s = "BTCB" -> <<"7130", "L">>
          [] s = "BTC"  -> <<"7130", "L">>
          [] s = "ETH"  -> <<"2170", "M">>
          [] s = "CAKE" -> <<"0e09", "M">>]

\* the value standing for null / undefined address
NoAddr == <<"", "L">>

\* String.toUpperCase on the symbols the model uses
ToUpperCase(s) ==
    CASE s = "usdt" -> "USDT"
      [] s = "btcb" -> "BTCB"
      [] s = "wbnb" -> "WBNB"
      [] s = "xyz"  -> "XYZ"
      [] OTHER -> s

\* process.env[ADDR_<SYMBOL>] when it is a well-formed address, else undefined
getTokenAddressFromEnv(e, symbol) ==
    LET key == ToUpperCase(symbol)
    IN  IF key \in DOMAIN e.addr THEN e.addr[key] ELSE NoAddr

getKnownTokenAddress(e, symbol) ==
    LET s == ToUpperCase(symbol)
        envAddr == getTokenAddressFromEnv(e, s)
    IN  IF envAddr # NoAddr THEN envAddr
        ELSE IF s \in DOMAIN KNOWN_TOKENS THEN KNOWN_TOKENS[s]
        ELSE NoAddr

\* the filter comparing the addresses as written, without lower-casing them
uniqueAddressesExact(pathArr) ==
    LET keep(i) == i = 1 \/ pathArr[i] # pathArr[i - 1]
        F[i \in 0..Len(pathArr)] ==
            IF i = 0 THEN <<>>
            ELSE IF keep(i) THEN Append(F[i - 1], pathArr[i]) ELSE F[i - 1]
    IN  F[Len(pathArr)]

\* pathArr.filter((addr, i) => i === 0 || lower(addr) !== lower(pathArr[i-1]))
uniqueAddresses(pathArr) ==
    LET keep(i) == i = 1 \/ Lower(pathArr[i]) # Lower(pathArr[i - 1])
        F[i \in 0..Len(pathArr)] ==
            IF i = 0 THEN <<>>
            ELSE IF keep(i) THEN Append(F[i - 1], pathArr[i]) ELSE F[i - 1]
    IN  F[Len(pathArr)]

getPreferredIntermediates(e) ==
    IF e.inter # <<>> THEN [i \in 1..Len(e.inter) |-> ToUpperCase(e.inter[i])]
    ELSE <<"WBNB", "USDT", "USDC">>

resolveSymbolsToAddresses(e, symbols) ==
    LET F[i \in 0..Len(symbols)] ==
            IF i = 0 THEN <<>>
            ELSE LET addr == getKnownTokenAddress(e, symbols[i])
                 IN  IF addr # NoAddr THEN Append(F[i - 1], addr) ELSE F[i - 1]
    IN  F[Len(symbols)]

----------------------------------------------------------------------------
(* Option values *)

\* params.maxHops: absent, a number, or NaN
HopsUndef == [k |-> "undef", v |-> 0]
HopsNaN   == [k |-> "nan", v |-> 0]
HopsNum(n) == [k |-> "num", v |-> n]

Max(a, b) == IF a >= b THEN a ELSE b
Min(a, b) == IF a <= b THEN a ELSE b

\* the clamp with 4 for an absent option
clampMaxHopsDefault4(h) ==
    CASE h.k = "undef" -> HopsNum(Max(2, Min(4, 4)))
      [] h.k = "nan"   -> HopsNaN
      [] OTHER         -> HopsNum(Max(2, Min(4, h.v)))

\* Math.max(2, Math.min(4, Number(params.maxHops ?? 3))); NaN propagates
clampMaxHops(h) ==
    CASE h.k = "undef" -> HopsNum(Max(2, Min(4, 3)))
      [] h.k = "nan"   -> HopsNaN
      [] OTHER         -> HopsNum(Max(2, Min(4, h.v)))

\* n <= maxHops and n > maxHops in IEEE arithmetic: both false on NaN
LeqHops(n, h) == h.k = "num" /\ n <= h.v
GtHops(n, h)  == h.k = "num" /\ n > h.v

----------------------------------------------------------------------------
(* Candidate enumeration *)

\* the (i, j) pairs of the two nested loops, i # j, in iteration order
OrderedPairs(n) ==
    LET all == [k \in 1..(n * n) |-> <<((k - 1) \div n) + 1, ((k - 1) % n) + 1>>]
        distinct(pr) == pr[1] # pr[2]
    IN  SelectSeq(all, distinct)

\* the argument of every addPath / addRoute call, in call order
GeneratedPaths(fromAddr, toAddr, allowMultiHop, interAddrs) ==
    LET n == Len(interAddrs)
        pairs == OrderedPairs(n)
    IN  <<  <<fromAddr, toAddr>>  >>
        \o (IF allowMultiHop
            THEN [m \in 1..n |-> <<fromAddr, interAddrs[m], toAddr>>]
                 \o [k \in 1..Len(pairs) |->
                        <<fromAddr, interAddrs[pairs[k][1]], interAddrs[pairs[k][2]], toAddr>>]
            ELSE <<>>)

\* addPath with the hop bound compared strictly
addPathKeepsBelow(clean, allowMultiHop, maxHops) ==
    /\ Len(clean) >= 2
    /\ IF ~allowMultiHop THEN Len(clean) = 2
       ELSE maxHops.k = "num" /\ Len(clean) < maxHops.v

\* the test of addPath (v2) on the cleaned path
addPathKeeps(clean, allowMultiHop, maxHops) ==
    /\ Len(clean) >= 2
    /\ IF ~allowMultiHop THEN Len(clean) = 2 ELSE LeqHops(Len(clean), maxHops)

\* candidatePaths of quotePcsV2BestExactIn
candidatePaths(fromAddr, toAddr, allowMultiHop, maxHops, interAddrs) ==
    LET gen == GeneratedPaths(fromAddr, toAddr, allowMultiHop, interAddrs)
        cleaned == [k \in 1..Len(gen) |-> uniqueAddresses(gen[k])]
        keeps(c) == addPathKeeps(c, allowMultiHop, maxHops)
    IN  SelectSeq(cleaned, keeps)

\* the three early returns of addRoute (v3) on the cleaned path
addRouteKeeps(clean, allowMultiHop, maxHops) ==
    /\ ~(Len(clean) < 2)
    /\ ~(~allowMultiHop /\ Len(clean) # 2)
    /\ ~(allowMultiHop /\ GtHops(Len(clean), maxHops))

\* the expansion giving every hop of a route the same fee tier
feeCombosUniform(hops, feeTiers) ==
    IF hops = 0 THEN << <<>> >>
    ELSE [k \in 1..Len(feeTiers) |-> [j \in 1..hops |-> feeTiers[k]]]

\* choose(depth, currentFees): every fee sequence of length hops, first hop
\* varying slowest
RECURSIVE feeCombos(_, _)
feeCombos(hops, feeTiers) ==
    IF hops = 0 THEN << <<>> >>
    ELSE LET rest == feeCombos(hops - 1, feeTiers)
             nT == Len(feeTiers)
             nR == Len(rest)
         IN  [k \in 1..(nT * nR) |->
                <<feeTiers[((k - 1) \div nR) + 1]>> \o rest[((k - 1) % nR) + 1]]

RECURSIVE Flatten(_)
Flatten(ss) == IF ss = <<>> THEN <<>> ELSE Head(ss) \o Flatten(Tail(ss))

\* routes of quotePcsV3BestExactIn: {tokens, fees}
v3Routes(fromAddr, toAddr, allowMultiHop, maxHops, interAddrs, feeTiers) ==
    LET gen == GeneratedPaths(fromAddr, toAddr, allowMultiHop, interAddrs)
        cleaned == [k \in 1..Len(gen) |-> uniqueAddresses(gen[k])]
        keeps(c) == addRouteKeeps(c, allowMultiHop, maxHops)
        kept == SelectSeq(cleaned, keeps)
        expand(c) == LET fc == feeCombos(Len(c) - 1, feeTiers)
                     IN  [k \in 1..Len(fc) |-> [tokens |-> c, fees |-> fc[k]]]
    IN  Flatten([k \in 1..Len(kept) |-> expand(kept[k])])

----------------------------------------------------------------------------
(* Venue answers *)

\* what one contract call ends with: a decoded amount, or an exception
\* (revert, timeout of withTimeout, response that does not decode)
Threw == [ok |-> FALSE, v |-> 0]
Answer(n) == [ok |-> TRUE, v |-> n]
AllOutcomes == {Threw} \cup {Answer(n) : n \in 0..MaxOut}

\* answers to a ranking call on a path; when env.live the venue has liquidity on
\* the direct pair and answers its full-amount quote with a non-zero amount
RankOutcomes(e, path) ==
    IF e.live /\ Len(path) = 2 THEN {Answer(n) : n \in 1..MaxOut} ELSE AllOutcomes

\* the quoter contract is reached through a read-only provider: the plain
\* (non-static) call of a nonpayable function has no signer to send with and throws
NonStaticOutcomes == {Threw}

----------------------------------------------------------------------------
(* Quotes *)

NoQuote ==
    [provider |-> "none", amountInRaw |-> 0, amountOutRaw |-> 0, path |-> <<>>,
     fees |-> <<>>, isSplit |-> FALSE, parts |-> <<>>, pathSymbols |-> <<>>]

SingleQuote(provider, inRaw, outRaw, path, fees) ==
    [provider |-> provider, amountInRaw |-> inRaw, amountOutRaw |-> outRaw,
     path |-> path, fees |-> fees, isSplit |-> FALSE, parts |-> <<>>,
     pathSymbols |-> <<>>]

SplitQuotePart(inRaw, outRaw, path) ==
    [amountInRaw |-> inRaw, amountOutRaw |-> outRaw, path |-> path, pathSymbols |-> <<>>]

SplitQuote(inRaw, outRaw, part1, part2) ==
    [provider |-> "none", amountInRaw |-> inRaw, amountOutRaw |-> outRaw,
     path |-> <<>>, fees |-> <<>>, isSplit |-> TRUE, parts |-> <<part1, part2>>,
     pathSymbols |-> <<>>]

\* the symbols a quoter tests an address against, in the order of its tests:
\* fromSymbol, toSymbol, WBNB, BUSD, USDT, and in the v3 quoter USDC
Name(symbol, addr) == [symbol |-> symbol, addr |-> addr]

namesV3(e, fromSymbol, fromAddr, toSymbol, toAddr) ==
    <<Name(fromSymbol, fromAddr), Name(toSymbol, toAddr),
      Name("WBNB", getKnownTokenAddress(e, "WBNB")),
      Name("BUSD", getKnownTokenAddress(e, "BUSD")),
      Name("USDT", getKnownTokenAddress(e, "USDT")),
      Name("USDC", getKnownTokenAddress(e, "USDC"))>>

namesV2(e, fromSymbol, fromAddr, toSymbol, toAddr) ==
    <<Name(fromSymbol, fromAddr), Name(toSymbol, toAddr),
      Name("WBNB", getKnownTokenAddress(e, "WBNB")),
      Name("BUSD", getKnownTokenAddress(e, "BUSD")),
      Name("USDT", getKnownTokenAddress(e, "USDT"))>>

\* the symbol of the first test an address passes, 'UNKNOWN' when it passes none
symbolOf(names, addr) ==
    LET hits == {k \in 1..Len(names) : Lower(names[k].addr) = Lower(addr)}
    IN  IF hits = {} THEN "UNKNOWN"
        ELSE names[CHOOSE k \in hits : \A m \in hits : k <= m].symbol

formatPathSymbols(names, path) == [k \in 1..Len(path) |-> symbolOf(names, path[k])]

\* the quote with pathSymbols filled in, for a split in each of its parts
withPathSymbols(names, q) ==
    [q EXCEPT !.pathSymbols = formatPathSymbols(names, q.path),
              !.parts = [k \in 1..Len(q.parts) |->
                            [q.parts[k] EXCEPT
                                !.pathSymbols = formatPathSymbols(names, q.parts[k].path)]]]

\* a settled promise: fulfilled with a quote, or rejected with an error
Pending == [st |-> "none", err |-> "", q |-> NoQuote]
Fulfilled(q) == [st |-> "ok", err |-> "", q |-> q]
Rejected(e) == [st |-> "err", err |-> e, q |-> NoQuote]

----------------------------------------------------------------------------
(* Ranking *)

\* Array.prototype.sort with (a, b) => a.out > b.out ? -1 : a.out < b.out ? 1 : 0
\* is a stable sort: descending by out, equal outputs keep their array order
RECURSIVE sortByOutDesc(_)
sortByOutDesc(s) ==
    IF Len(s) <= 1 THEN s
    ELSE LET x == Head(s)
             rest == sortByOutDesc(Tail(s))
             k == Cardinality({i \in 1..Len(rest) : rest[i].out > x.out})
         IN  SubSeq(rest, 1, k) \o <<x>> \o SubSeq(rest, k + 1, Len(rest))

\* the v2 ranking with zero outputs ranked last instead of dropped
rankV2KeepZero(cands, res) ==
    sortByOutDesc([i \in 1..Len(cands) |->
                      [path |-> cands[i], fees |-> <<>>, out |-> res[i].out]])

\* the v2 ranking when the exception of one call rejects the whole Promise.all
rankV2AbortOnThrow(cands, res) ==
    LET all == [i \in 1..Len(cands) |->
                    [path |-> cands[i], fees |-> <<>>, out |-> res[i].out]]
        nonNull(r) == r.out # 0
    IN  IF \E i \in 1..Len(res) : res[i].threw THEN <<>>
        ELSE sortByOutDesc(SelectSeq(all, nonNull))

\* results.filter(Boolean) of the v2 quoter, sorted: null stands for out === 0n
rankV2(cands, res) ==
    LET all == [i \in 1..Len(cands) |->
                    [path |-> cands[i], fees |-> <<>>, out |-> res[i].out]]
        nonNull(r) == r.out # 0
    IN  sortByOutDesc(SelectSeq(all, nonNull))

\* outputs.filter(Boolean) of the v3 quoter, sorted: kept when out > 0n
rankV3(cands, res) ==
    LET all == [i \in 1..Len(cands) |->
                    [path |-> cands[i].tokens, fees |-> cands[i].fees, out |-> res[i].out]]
        nonNull(r) == r.out > 0
    IN  sortByOutDesc(SelectSeq(all, nonNull))

----------------------------------------------------------------------------
(* Split search *)

\* const steps = 10
Steps == 10

\* in1 = (amountInRaw * BigInt(p)) / 100n; in2 = amountInRaw - in1
splitIn1(amountInRaw, p) == (amountInRaw * p) \div 100

\* the second share computed from its own percentage, rounded on its own
splitIn2Rounded(amountInRaw, p) == (amountInRaw * (100 - p)) \div 100
splitIn2(amountInRaw, p) == amountInRaw - splitIn1(amountInRaw, p)

NotIssued == [st |-> "none", out |-> 0, amt |-> 0]
InFlight(amt) == [st |-> "pending", out |-> 0, amt |-> amt]

\* the two calls of the step at percentage p
issueStep(amountInRaw, p) ==
    <<InFlight(splitIn1(amountInRaw, p)), InFlight(splitIn2(amountInRaw, p))>>

\* the comparison letting a later step of equal total replace the best
betterOrEqualTotal(total, bestTotalOut) == total >= bestTotalOut

\* if (total > bestTotalOut) { bestTotalOut = total; bestPercentToR1 = p; ... }
betterTotal(total, bestTotalOut) == total > bestTotalOut

\* the loop body after both evaluations of step p returned o1, o2
stepUpdate(pr, o1, o2) ==
    LET total == o1.out + o2.out
    IN  IF betterTotal(total, pr.bestTotalOut)
        THEN [pr EXCEPT !.bestTotalOut = total, !.bestPercentToR1 = pr.p,
                        !.bestOut1 = o1.out, !.bestOut2 = o2.out]
        ELSE pr

\* The history of a split search: how many steps completed, the largest
\* combined output among them, the first percentage that reached it, and the
\* amounts passed to and returned by the venue at that step
NoSteps == [steps |-> 0, max |-> 0, pct |-> 0, ins |-> <<0, 0>>, outs |-> <<0, 0>>]

observeStep(h, p, o1, o2) ==
    IF o1.out + o2.out > h.max
    THEN [steps |-> h.steps + 1, max |-> o1.out + o2.out, pct |-> p,
          ins |-> <<o1.amt, o2.amt>>, outs |-> <<o1.out, o2.out>>]
    ELSE [h EXCEPT !.steps = h.steps + 1]

\* the comparison returning the split on a tie
keepsSingleStrict(bestSingleOut, bestTotalOut) == bestSingleOut > bestTotalOut

\* if (ranked[0].out >= bestTotalOut) return the unsplit best route
keepsSingle(bestSingleOut, bestTotalOut) == bestSingleOut >= bestTotalOut

\* p <= 100 - steps
lastStep(p) == ~(p + Steps <= 100 - Steps)

\* the return after the loop: the best single route, or the split
splitResult(pr, provider) ==
    LET best == pr.ranked[1]
        in1 == splitIn1(pr.amountInRaw, pr.bestPercentToR1)
        in2 == splitIn2(pr.amountInRaw, pr.bestPercentToR1)
    IN  withPathSymbols(pr.names,
            IF keepsSingle(best.out, pr.bestTotalOut)
            THEN SingleQuote(provider, pr.amountInRaw, best.out, best.path, best.fees)
            ELSE SplitQuote(pr.amountInRaw, pr.bestOut1 + pr.bestOut2,
                            SplitQuotePart(in1, pr.bestOut1, pr.ranked[1].path),
                            SplitQuotePart(in2, pr.bestOut2, pr.ranked[2].path)))

----------------------------------------------------------------------------
(* The decimals cache *)

\* most fetchTokenDecimals calls under way at once
MaxFetches == 3

\* JavaScript values: erc20.decimals() goes through the ABI decoder of the
\* Contract, which yields every uintN as a bigint
NumberOf(n) == [type |-> "number", v |-> n]
BigIntOf(n) == [type |-> "bigint", v |-> n]

\* a finiteness test that takes a bigint for a number
isFiniteNumeric(x) == x.type \in {"number", "bigint"}

\* Number.isFinite: false for every value whose type is not number
NumberIsFinite(x) == x.type = "number"

\* decimalsCache, a Map from lower-cased address to decimals
EmptyCache == [k \in {} |-> 0]
cacheHas(cache, key) == key \in DOMAIN cache
cacheSet(cache, key, d) == [k \in DOMAIN cache \cup {key} |-> IF k = key THEN d ELSE cache[k]]

\* what erc20.decimals() under withTimeout ends with on a token whose
\* contract reports d: the decoded value, or an exception (revert, timeout)
DecimalsThrew == [ok |-> FALSE, v |-> BigIntOf(0)]
DecimalsOutcomes(d) == {DecimalsThrew, Answer(BigIntOf(d))}

\* the value fetchTokenDecimals stores and returns once the call has ended
decimalsAfterCall(outcome) ==
    IF outcome.ok /\ NumberIsFinite(outcome.v) THEN outcome.v.v ELSE 18

\* one fetchTokenDecimals call: pc "start" not yet run, "await" suspended on
\* erc20.decimals(), "done" returned.  rpc records how the contract call ended.
FetchCall(token) == [token |-> token, pc |-> "start", ret |-> 0, rpc |-> "none"]

\* written is the record of every decimalsCache.set so far, kept beside the
\* variables of the code
NoFetches == [cache |-> EmptyCache, calls |-> <<>>, written |-> {}]

----------------------------------------------------------------------------
(* The dry-run simulator.  Amounts of USD are whole units and rates are basis *)
(* points; the code computes them in doubles                                  *)

\* most ticks of a continuous run that are followed
MaxTicks == 2

\* an optional number of the configuration: undefined, or the fraction n / d
NumUndef == [k |-> "undef", n |-> 0, d |-> 1]
Num(n, d) == [k |-> "num", n |-> n, d |-> d]
IsNum(x) == x.k = "num"

\* Math.floor
MathFloor(x) == x.n \div x.d

\* String.toUpperCase on the asset symbols the simulator meets
SymbolUpper(s) == IF s \in {"wBETH", "wbeth"} THEN "WBETH" ELSE s

\* Boolean(config.continuous) || hours <= 0 || ticks <= 0
isContinuous(cfg) ==
    \/ cfg.continuous
    \/ IsNum(cfg.hours) /\ cfg.hours.n <= 0
    \/ IsNum(cfg.ticks) /\ cfg.ticks.n <= 0

\* Math.ceil(a / b) for b > 0
CeilDiv(a, b) == -((-a) \div b)

\* a schedule that takes the hours when ticks are given too
plannedTicksByHours(cfg) ==
    IF isContinuous(cfg) THEN 0
    ELSE IF IsNum(cfg.hours) /\ cfg.hours.n > 0
    THEN Max(1, CeilDiv(cfg.hours.n * 3600, cfg.hours.d * cfg.pollIntervalSec))
    ELSE IF IsNum(cfg.ticks) /\ cfg.ticks.n > 0 THEN MathFloor(cfg.ticks)
    ELSE CeilDiv(24 * 3600, cfg.pollIntervalSec)

\* plannedTicks: 0 for a continuous run, the ticks rounded down, the ticks the
\* hours hold, or those of 24 hours
plannedTicks(cfg) ==
    IF isContinuous(cfg) THEN 0
    ELSE IF IsNum(cfg.ticks) /\ cfg.ticks.n > 0 THEN MathFloor(cfg.ticks)
    ELSE IF IsNum(cfg.hours) /\ cfg.hours.n > 0
    THEN Max(1, CeilDiv(cfg.hours.n * 3600, cfg.hours.d * cfg.pollIntervalSec))
    ELSE CeilDiv(24 * 3600, cfg.pollIntervalSec)

\* the SimulationState of a fresh start, and of a reset
freshState(cfg) ==
    [currentAssetSymbol |-> SymbolUpper(cfg.baseAssetSymbol), positionUSD |-> cfg.amountUSD,
     cumulativeYieldUSD |-> 0, cumulativeFeesUSD |-> 0, cumulativeGasUSD |-> 0,
     cumulativeSwapUSD |-> 0, switches |-> 0]

Market(symbol, apyBps) == [assetSymbol |-> symbol, supplyApyBps |-> apyBps]

\* pickMarketForSymbol(markets, symbol) ?? markets[0]
pickMarketForSymbol(markets, symbol) ==
    LET hits == {k \in 1..Len(markets) :
                    SymbolUpper(markets[k].assetSymbol) = SymbolUpper(symbol)}
    IN  IF hits = {} THEN markets[1]
        ELSE markets[CHOOSE k \in hits : \A m \in hits : k <= m]

\* estimateSwapFeesBps: 0 for one symbol, 25 between stablecoins, 50 otherwise
estimateSwapFeesBps(fromSymbol, toSymbol) ==
    IF SymbolUpper(fromSymbol) = SymbolUpper(toSymbol) THEN 0
    ELSE IF {SymbolUpper(fromSymbol), SymbolUpper(toSymbol)} \subseteq {"BUSD", "USDT", "USDC"}
    THEN 25
    ELSE 50

\* netApyDiffPercent > thresholdBps / 100, with gasPercent = gasFeeUSD /
\* positionUSD * 100 for a positive position and 0 otherwise
profitable(f, thresholdBps) ==
    LET gross == f.bestApyBps - f.currentApyBps - f.swapFeeBps - thresholdBps
    IN  IF f.positionUSD > 0 THEN gross * f.positionUSD > f.gasFeeUSD * 10000
        ELSE gross > 0

\* the figures of the tick event: the market held, the best market, the fees
\* of a switch from the one to the other and whether it pays
tickFigures(st, markets, gasFeeUSD, thresholdBps) ==
    LET current == pickMarketForSymbol(markets, st.currentAssetSymbol)
        best == markets[1]
        swapFeeBps == estimateSwapFeesBps(st.currentAssetSymbol, best.assetSymbol)
        f == [positionUSD |-> st.positionUSD, currentAsset |-> current.assetSymbol,
              currentApyBps |-> current.supplyApyBps, bestAsset |-> best.assetSymbol,
              bestApyBps |-> best.supplyApyBps, swapFeeBps |-> swapFeeBps,
              gasFeeUSD |-> gasFeeUSD,
              swapFeeUSD |-> (st.positionUSD * swapFeeBps) \div 10000,
              profitable |-> FALSE]
    IN  [f EXCEPT !.profitable = profitable(f, thresholdBps)]

\* profitable && best.assetSymbol !== state.currentAssetSymbol
switches(st, f) == f.profitable /\ f.bestAsset # st.currentAssetSymbol

\* a switch that charges the gas alone to the position
switchedGasOnly(st, f) ==
    [st EXCEPT !.positionUSD = @ - f.gasFeeUSD,
               !.cumulativeFeesUSD = @ + (f.gasFeeUSD + f.swapFeeUSD),
               !.cumulativeGasUSD = @ + f.gasFeeUSD,
               !.cumulativeSwapUSD = @ + f.swapFeeUSD,
               !.currentAssetSymbol = f.bestAsset,
               !.switches = @ + 1]

\* the state after the switch
switched(st, f) ==
    [st EXCEPT !.positionUSD = (@ - f.gasFeeUSD) - f.swapFeeUSD,
               !.cumulativeFeesUSD = @ + (f.gasFeeUSD + f.swapFeeUSD),
               !.cumulativeGasUSD = @ + f.gasFeeUSD,
               !.cumulativeSwapUSD = @ + f.swapFeeUSD,
               !.currentAssetSymbol = f.bestAsset,
               !.switches = @ + 1]

\* before the figures of a tick are known
NoFigures ==
    [positionUSD |-> 0, currentAsset |-> "", currentApyBps |-> 0, bestAsset |-> "",
     bestApyBps |-> 0, swapFeeBps |-> 0, gasFeeUSD |-> 0, swapFeeUSD |-> 0,
     profitable |-> FALSE]

\* an event of the actions log, and a record of the balance log; gen is the
\* number of resets the state it was computed from had gone through
Event(type, gen) == [type |-> type, gen |-> gen]

\* pc is the place of the run: "boot", "loop", the awaits of runOneTick,
\* "summary", "done".  http is the place of the GET /api/reset request.
\* i is the loop counter, ticks the calls of runOneTick that returned, gen the
\* resets of the state, summaries the summary events appended, before the
\* state on entry of the tick in progress, fresh whether that tick reset it
NoSimulation ==
    [pc |-> "off", i |-> 0, ticks |-> 0, planned |-> 0,
     state |-> freshState([baseAssetSymbol |-> "", amountUSD |-> 0]),
     before |-> freshState([baseAssetSymbol |-> "", amountUSD |-> 0]),
     markets |-> <<>>, f |-> NoFigures, gen |-> 0, summaries |-> 0, fresh |-> FALSE,
     actions |-> <<>>, balance |-> <<>>, flag |-> FALSE, http |-> "none"]

----------------------------------------------------------------------------
(* One quoter invocation *)

\* decimalsOf holds the addresses fetchTokenDecimals was called with.
\* pc: "idle" not called, "calls" ranking calls in flight (Promise.all),
\* "split" a split step in flight, "done" settled.  seen is the record of the
\* split steps completed so far, kept beside the variables of the code.
IdleProc ==
    [pc |-> "idle", amountInRaw |-> 0, allowMultiHop |-> FALSE, maxHops |-> HopsUndef,
     allowSplit |-> FALSE, cands |-> <<>>,
     res |-> <<>>, ranked |-> <<>>, p |-> 0, bestTotalOut |-> 0,
     bestPercentToR1 |-> 0, bestOut1 |-> 0, bestOut2 |-> 0, seen |-> NoSteps,
     fl |-> <<NotIssued, NotIssued>>, overtook |-> FALSE, lateBest |-> FALSE,
     decimalsOf |-> <<>>, names |-> <<>>, ret |-> Pending]

\* a slot of the array Promise.all resolves to; of names the candidate whose
\* call filled it
CallPending == [st |-> "pending", out |-> 0, threw |-> FALSE, of |-> 0]
CallDone(out, threw) == [st |-> "done", out |-> out, threw |-> threw, of |-> 0]

\* the call of candidate i has not settled yet
CallOutstanding(res, i) == \A k \in 1..Len(res) : res[k].of # i

\* the call of candidate i settles while an earlier candidate's call is pending;
\* a quoter remembers in overtook whether that happened among the calls whose
\* results it ranks without a split search
Overtakes(res, i) == \E j \in 1..(i - 1) : CallOutstanding(res, j)

\* a call completes with more than every call that completed before it; a
\* quoter remembers in lateBest whether the call that completed last did
BeatsCompleted(res, out) ==
    /\ \E k \in 1..Len(res) : res[k].st = "done"
    /\ \A k \in 1..Len(res) : res[k].st = "done" => res[k].out < out

\* the results collected in the order in which the calls complete
settleInArrival(res, i, r) ==
    LET k == CHOOSE j \in 1..Len(res) :
                 res[j].st = "pending" /\ \A m \in 1..(j - 1) : res[m].st = "done"
    IN  [res EXCEPT ![k] = [r EXCEPT !.of = i]]

\* Promise.all(candidates.map(...)): the value of the i-th promise is the i-th
\* element of the result, whenever it settles
settleAt(res, i, r) == [res EXCEPT ![i] = [r EXCEPT !.of = i]]

Settled(pr, r) == [pr EXCEPT !.pc = "done", !.ret = r]

\* Boolean(x) of an optional flag; x ?? true
ToBool(x) == x = "true"
OrTrue(x) == IF x = "undef" THEN "true" ELSE x

\* a quoter that asks for the decimals before it looks at the addresses
v2BeginFetchFirst(e, params) ==
    LET fromAddr == getKnownTokenAddress(e, ToUpperCase(params.fromSymbol))
        toAddr == getKnownTokenAddress(e, ToUpperCase(params.toSymbol))
        allowMultiHop == ToBool(params.allowMultiHop)
        maxHops == clampMaxHops(params.maxHops)
        interAddrs == resolveSymbolsToAddresses(e, getPreferredIntermediates(e))
        cands == candidatePaths(fromAddr, toAddr, allowMultiHop, maxHops, interAddrs)
    IN  IF fromAddr = NoAddr \/ toAddr = NoAddr
        THEN Settled([IdleProc EXCEPT !.decimalsOf = <<fromAddr, toAddr>>],
                     Rejected("unknown-asset"))
        ELSE [IdleProc EXCEPT !.pc = "calls", !.decimalsOf = <<fromAddr, toAddr>>,
                              !.names = namesV2(e, ToUpperCase(params.fromSymbol), fromAddr,
                                                ToUpperCase(params.toSymbol), toAddr),
                              !.amountInRaw = params.amountInRaw,
                              !.allowMultiHop = allowMultiHop, !.maxHops = maxHops,
                              !.allowSplit = params.allowSplitRouting,
                              !.cands = cands,
                              !.res = [i \in 1..Len(cands) |-> CallPending]]

\* quotePcsV2BestExactIn up to the Promise.all over candidatePaths
v2Begin(e, params) ==
    LET fromAddr == getKnownTokenAddress(e, ToUpperCase(params.fromSymbol))
        toAddr == getKnownTokenAddress(e, ToUpperCase(params.toSymbol))
        allowMultiHop == ToBool(params.allowMultiHop)
        maxHops == clampMaxHops(params.maxHops)
        interAddrs == resolveSymbolsToAddresses(e, getPreferredIntermediates(e))
        cands == candidatePaths(fromAddr, toAddr, allowMultiHop, maxHops, interAddrs)
    IN  IF fromAddr = NoAddr \/ toAddr = NoAddr
        THEN Settled(IdleProc, Rejected("unknown-asset"))
        ELSE [IdleProc EXCEPT !.pc = "calls", !.decimalsOf = <<fromAddr, toAddr>>,
                              !.names = namesV2(e, ToUpperCase(params.fromSymbol), fromAddr,
                                                ToUpperCase(params.toSymbol), toAddr),
                              !.amountInRaw = params.amountInRaw,
                              !.allowMultiHop = allowMultiHop, !.maxHops = maxHops,
                              !.allowSplit = params.allowSplitRouting,
                              !.cands = cands,
                              !.res = [i \in 1..Len(cands) |-> CallPending]]

\* feeTiers = (params.feeTiers?.length ? params.feeTiers : DEFAULT_V3_FEE_TIERS).slice(0, 6)
feeTiersOf(e, params) ==
    LET f == IF params.feeTiers # <<>> THEN params.feeTiers ELSE e.feeTiers
    IN  SubSeq(f, 1, Min(6, Len(f)))

\* quotePcsV3BestExactIn up to the Promise.all over routes
v3Begin(e, params) ==
    LET fromAddr == getKnownTokenAddress(e, ToUpperCase(params.fromSymbol))
        toAddr == getKnownTokenAddress(e, ToUpperCase(params.toSymbol))
        allowMultiHop == ToBool(params.allowMultiHop)
        maxHops == clampMaxHops(params.maxHops)
        interAddrs == resolveSymbolsToAddresses(e, getPreferredIntermediates(e))
        routes == v3Routes(fromAddr, toAddr, allowMultiHop, maxHops, interAddrs,
                           feeTiersOf(e, params))
    IN  IF ~e.quoter
        THEN Settled(IdleProc, Rejected("quoter-unavailable"))
        ELSE IF fromAddr = NoAddr \/ toAddr = NoAddr
        THEN Settled(IdleProc, Rejected("unknown-asset"))
        ELSE [IdleProc EXCEPT !.pc = "calls", !.decimalsOf = <<fromAddr, toAddr>>,
                              !.names = namesV3(e, ToUpperCase(params.fromSymbol), fromAddr,
                                                ToUpperCase(params.toSymbol), toAddr),
                              !.amountInRaw = params.amountInRaw,
                              !.allowMultiHop = allowMultiHop, !.maxHops = maxHops,
                              !.allowSplit = params.allowSplitRouting,
                              !.cands = routes,
                              !.res = [i \in 1..Len(routes) |-> CallPending]]

\* evaluatePathOut: the amount of getAmountsOut, 0n when the call throws
evaluatePathOut(o) == IF o.ok THEN o.v ELSE 0

\* quoteV3ExactInputSingle: the legacy static call, then the struct static call
quoteV3ExactInputSingle(a1, a2) ==
    IF a1.ok THEN a1.v ELSE IF a2.ok THEN a2.v ELSE 0

\* quoteV3ExactInput: the static call, then the plain call
quoteV3ExactInput(b1, b2) ==
    IF b1.ok THEN b1.v ELSE IF b2.ok THEN b2.v ELSE 0

\* what a run of quoteV3ExactInputSingle can end with: its amount, and whether
\* every call it made threw
SingleRuns ==
    {[out |-> quoteV3ExactInputSingle(a1, a2), threw |-> ~a1.ok /\ ~a2.ok] :
        a1 \in AllOutcomes, a2 \in AllOutcomes}

\* what a run of quoteV3ExactInput can end with, the static call answering from
\* statics
MultiRuns(statics) ==
    {[out |-> quoteV3ExactInput(b1, b2), threw |-> ~b1.ok /\ ~b2.ok] :
        b1 \in statics, b2 \in NonStaticOutcomes}

\* an evaluation that takes the encoded multi-hop amount alone
evalRouteMultiOnly(r, single, multi) == multi.out

\* evalRoute: a two-token route asks both call shapes, multi > 0n ? multi : single
evalRoute(r, single, multi) ==
    IF Len(r.tokens) = 2
    THEN IF multi.out > 0 THEN multi.out ELSE single.out
    ELSE multi.out

\* the evaluation of one route inside the split loop of the v3 quoter
splitEvalV3(tokens, single, multi) ==
    IF Len(tokens) = 2 THEN single.out ELSE multi.out

\* a ranking that starts as soon as one candidate has answered above 0
AnyAnswered(pr) == \E i \in 1..Len(pr.res) : pr.res[i].st = "done" /\ pr.res[i].out > 0

\* await Promise.all: every candidate's promise has resolved
AllDone(pr) == \A i \in 1..Len(pr.res) : pr.res[i].st = "done"

\* after the ranking: throw when empty, start the split loop, or return the best
afterRank(pr, ranked, provider, noRoute) ==
    IF ranked = <<>> THEN Settled(pr, Rejected(noRoute))
    ELSE IF pr.allowSplit /\ Len(ranked) >= 2
    THEN [pr EXCEPT !.pc = "split", !.overtook = FALSE, !.lateBest = FALSE, !.ranked = ranked, !.p = Steps,
                    !.bestTotalOut = 0, !.bestPercentToR1 = 100,
                    !.bestOut1 = ranked[1].out, !.bestOut2 = 0,
                    !.fl = issueStep(pr.amountInRaw, Steps)]
    ELSE Settled([pr EXCEPT !.ranked = ranked],
                 Fulfilled(withPathSymbols(pr.names,
                     SingleQuote(provider, pr.amountInRaw, ranked[1].out,
                                 ranked[1].path, ranked[1].fees))))

\* one evaluation of the step in flight returned; when it was the second, run
\* the loop body and either issue the next step or return
afterStepCall(pr, k, out, provider) ==
    LET fl2 == [pr.fl EXCEPT ![k] = [@ EXCEPT !.st = "done", !.out = out]]
        upd == [stepUpdate(pr, fl2[1], fl2[2]) EXCEPT
                    !.seen = observeStep(pr.seen, pr.p, fl2[1], fl2[2])]
    IN  IF fl2[3 - k].st = "pending" THEN [pr EXCEPT !.fl = fl2]
        ELSE IF lastStep(pr.p)
        THEN Settled([upd EXCEPT !.fl = <<NotIssued, NotIssued>>],
                     Fulfilled(splitResult(upd, provider)))
        ELSE [upd EXCEPT !.p = pr.p + Steps,
                         !.fl = issueStep(pr.amountInRaw, pr.p + Steps)]

----------------------------------------------------------------------------
(* Entry points *)

\* the quoter parameters an entry point passes on
quoterParams(r, allowMultiHop, allowSplitRouting) ==
    [fromSymbol |-> r.fromSymbol, toSymbol |-> r.toSymbol,
     amountInRaw |-> r.amountInRaw, allowMultiHop |-> allowMultiHop,
     allowSplitRouting |-> allowSplitRouting, maxHops |-> r.maxHops,
     feeTiers |-> r.feeTiers]

\* the v2 parameters without the allowSplitRouting: false override
bestV2ParamsSpread(r) == quoterParams(r, OrTrue(r.allowMultiHop), r.allowSplitRouting)

\* { ...params, allowMultiHop: params.allowMultiHop ?? true, allowSplitRouting: false }
bestV2Params(r) == quoterParams(r, OrTrue(r.allowMultiHop), FALSE)

\* { ...params, allowMultiHop: params.allowMultiHop ?? true }: the spread hands
\* on an allowSplitRouting property of the caller's object
bestV3Params(r) == quoterParams(r, OrTrue(r.allowMultiHop), r.allowSplitRouting)

TopInit == [pc |-> "init", ret |-> Pending, q |-> NoQuote]

\* the selection with the tie given to v3
pancakeBestTieV3(q2, q3) ==
    LET ok2 == q2.st = "ok"
        ok3 == q3.st = "ok"
    IN  IF ~ok2 /\ ~ok3 THEN Rejected("no-pancake-route")
        ELSE IF ok2 /\ ~ok3 THEN Fulfilled([q2.q EXCEPT !.provider = "pcs-v2"])
        ELSE IF ~ok2 /\ ok3 THEN Fulfilled([q3.q EXCEPT !.provider = "pcs-v3"])
        ELSE IF q3.q.amountOutRaw >= q2.q.amountOutRaw
        THEN Fulfilled([q3.q EXCEPT !.provider = "pcs-v3"])
        ELSE Fulfilled([q2.q EXCEPT !.provider = "pcs-v2"])

\* the selection over Promise.all: one rejection rejects the call
pancakeBestAll(q2, q3) ==
    LET ok2 == q2.st = "ok"
        ok3 == q3.st = "ok"
    IN  IF ~ok2 \/ ~ok3 THEN Rejected("no-pancake-route")
        ELSE IF q3.q.amountOutRaw > q2.q.amountOutRaw
        THEN Fulfilled([q3.q EXCEPT !.provider = "pcs-v3"])
        ELSE Fulfilled([q2.q EXCEPT !.provider = "pcs-v2"])

\* the selection of quotePancakeBest over the two settled promises
pancakeBest(q2, q3) ==
    LET ok2 == q2.st = "ok"
        ok3 == q3.st = "ok"
    IN  IF ~ok2 /\ ~ok3 THEN Rejected("no-pancake-route")
        ELSE IF ok2 /\ ~ok3 THEN Fulfilled([q2.q EXCEPT !.provider = "pcs-v2"])
        ELSE IF ~ok2 /\ ok3 THEN Fulfilled([q3.q EXCEPT !.provider = "pcs-v3"])
        ELSE IF q3.q.amountOutRaw > q2.q.amountOutRaw
        THEN Fulfilled([q3.q EXCEPT !.provider = "pcs-v3"])
        ELSE Fulfilled([q2.q EXCEPT !.provider = "pcs-v2"])

\* the engine defaulting to the on-chain quoters
engineOfDefaultPcs(r) == IF r.engine = "undef" THEN "pcs" ELSE r.engine

\* engine = params.engine ?? 'oneinch'
engineOf(r) == IF r.engine = "undef" THEN "oneinch" ELSE r.engine

\* dex = params.dex ?? (DEFAULT_V3_QUOTER ? 'pcs-v3' : 'pcs-v2'); DEFAULT_V3_QUOTER
\* falls back to a literal address and is never empty
dexOf(r) == IF r.dex # "undef" THEN r.dex ELSE "pcs-v3"

\* quoteWithOneInchExactIn after the HTTP request: throw on error and on outRaw <= 0
oneInchResult(r, o) ==
    IF ~o.ok THEN Rejected("oneinch-request")
    ELSE IF o.v <= 0 THEN Rejected("no-oneinch-route")
    ELSE Fulfilled(SingleQuote("oneinch", r.amountInRaw, o.v, <<>>, <<>>))

----------------------------------------------------------------------------
(* Actions *)

\* a direct call of quotePcsV2BestExactIn
CallV2 ==
    /\ top.pc = "init" /\ req.entry = "v2"
    /\ v2' = v2Begin(env, quoterParams(req, req.allowMultiHop, req.allowSplitRouting))
    /\ top' = [top EXCEPT !.pc = "wait"]
    /\ UNCHANGED <<req, env, v3, dec, sim>>

\* a direct call of quotePcsV3BestExactIn
CallV3 ==
    /\ top.pc = "init" /\ req.entry = "v3"
    /\ v3' = v3Begin(env, quoterParams(req, req.allowMultiHop, req.allowSplitRouting))
    /\ top' = [top EXCEPT !.pc = "wait"]
    /\ UNCHANGED <<req, env, v2, dec, sim>>

\* quotePancakeBest: both quoters start on Promise.allSettled
CallPancakeBest ==
    /\ top.pc = "init" /\ req.entry = "best"
    /\ v2' = v2Begin(env, bestV2Params(req))
    /\ v3' = v3Begin(env, bestV3Params(req))
    /\ top' = [top EXCEPT !.pc = "wait"]
    /\ UNCHANGED <<req, env, dec, sim>>

\* simulateSwapCostNow: the engine selects the one quoter that is asked
CallSimulate ==
    /\ top.pc = "init" /\ req.entry = "sim"
    /\ IF engineOf(req) = "oneinch"
       THEN /\ top' = IF \/ getKnownTokenAddress(env, ToUpperCase(req.fromSymbol)) = NoAddr
                         \/ getKnownTokenAddress(env, ToUpperCase(req.toSymbol)) = NoAddr
                      THEN [top EXCEPT !.pc = "done", !.ret = Rejected("unknown-asset")]
                      ELSE [top EXCEPT !.pc = "oneinch"]
            /\ UNCHANGED <<v2, v3>>
       ELSE /\ top' = [top EXCEPT !.pc = "wait"]
            /\ IF dexOf(req) = "pcs-v3"
               THEN /\ v3' = v3Begin(env, quoterParams(req, req.allowMultiHop,
                                                       req.allowSplitRouting))
                    /\ UNCHANGED v2
               ELSE /\ v2' = v2Begin(env, quoterParams(req, req.allowMultiHop,
                                                       req.allowSplitRouting))
                    /\ UNCHANGED v3
    /\ UNCHANGED <<req, env, dec, sim>>

\* the getAmountsOut call of candidate i returns or throws
V2CallReturn(i) ==
    /\ v2.pc = "calls" /\ i \in 1..Len(v2.res) /\ CallOutstanding(v2.res, i)
    /\ \E o \in RankOutcomes(env, v2.cands[i]) :
         v2' = [v2 EXCEPT !.res = settleAt(v2.res, i, CallDone(evaluatePathOut(o), ~o.ok)),
                          !.overtook = @ \/ Overtakes(v2.res, i),
                          !.lateBest = BeatsCompleted(v2.res, evaluatePathOut(o))]
    /\ UNCHANGED <<req, env, v3, top, dec, sim>>

\* Promise.all resolved: filter, sort, then throw, start the split loop or return
V2Rank ==
    /\ v2.pc = "calls" /\ AllDone(v2)
    /\ v2' = afterRank(v2, rankV2(v2.cands, v2.res), "pcs-v2", "no-v2-route")
    /\ UNCHANGED <<req, env, v3, top, dec, sim>>

\* one of the two evaluatePathOut calls of the split step in flight returns
V2SplitCallReturn(k) ==
    /\ v2.pc = "split" /\ v2.fl[k].st = "pending"
    /\ \E o \in AllOutcomes : v2' = afterStepCall(v2, k, evaluatePathOut(o), "pcs-v2")
    /\ UNCHANGED <<req, env, v3, top, dec, sim>>

\* evalRoute of route i ran to its end; its calls are made one after another
V3RouteReturn(i) ==
    /\ v3.pc = "calls" /\ i \in 1..Len(v3.res) /\ CallOutstanding(v3.res, i)
    /\ \E single \in SingleRuns,
          multi \in MultiRuns(RankOutcomes(env, v3.cands[i].tokens)) :
         v3' = [v3 EXCEPT !.res =
                   settleAt(v3.res, i,
                       CallDone(evalRoute(v3.cands[i], single, multi),
                                IF Len(v3.cands[i].tokens) = 2
                                THEN single.threw /\ multi.threw ELSE multi.threw)),
                   !.overtook = @ \/ Overtakes(v3.res, i),
                   !.lateBest = BeatsCompleted(v3.res, evalRoute(v3.cands[i], single, multi))]
    /\ UNCHANGED <<req, env, v2, top, dec, sim>>

V3Rank ==
    /\ v3.pc = "calls" /\ AllDone(v3)
    /\ v3' = afterRank(v3, rankV3(v3.cands, v3.res), "none", "no-v3-route")
    /\ UNCHANGED <<req, env, v2, top, dec, sim>>

V3SplitCallReturn(k) ==
    /\ v3.pc = "split" /\ v3.fl[k].st = "pending"
    /\ \E out \in {splitEvalV3(v3.ranked[k].path, single, multi) :
                      single \in SingleRuns, multi \in MultiRuns(AllOutcomes)} :
         v3' = afterStepCall(v3, k, out, "none")
    /\ UNCHANGED <<req, env, v2, top, dec, sim>>

\* the direct caller of one quoter receives its settled promise
ReturnQuoter ==
    /\ top.pc = "wait" /\ req.entry \in {"v2", "v3"}
    /\ LET pr == IF req.entry = "v2" THEN v2 ELSE v3
       IN  /\ pr.pc = "done"
           /\ top' = [top EXCEPT !.pc = "done", !.ret = pr.ret]
    /\ UNCHANGED <<req, env, v2, v3, dec, sim>>

\* Promise.allSettled of quotePancakeBest resolved
ReturnPancakeBest ==
    /\ top.pc = "wait" /\ req.entry = "best"
    /\ v2.pc = "done" /\ v3.pc = "done"
    /\ top' = [top EXCEPT !.pc = "done", !.ret = pancakeBest(v2.ret, v3.ret)]
    /\ UNCHANGED <<req, env, v2, v3, dec, sim>>

\* the 1inch HTTP request of quoteWithOneInchExactIn returns or fails
OneInchReturn ==
    /\ top.pc = "oneinch"
    /\ \E o \in AllOutcomes :
         LET r == oneInchResult(req, o)
         IN  top' = IF r.st = "ok" THEN [top EXCEPT !.pc = "gas", !.q = r.q]
                    ELSE [top EXCEPT !.pc = "done", !.ret = r]
    /\ UNCHANGED <<req, env, v2, v3, dec, sim>>

\* quoteBestExactIn settled inside simulateSwapCostNow
SimulateQuoted ==
    /\ top.pc = "wait" /\ req.entry = "sim"
    /\ LET pr == IF dexOf(req) = "pcs-v3" THEN v3 ELSE v2
       IN  /\ pr.pc = "done"
           /\ top' = IF pr.ret.st = "ok" THEN [top EXCEPT !.pc = "gas", !.q = pr.ret.q]
                     ELSE [top EXCEPT !.pc = "done", !.ret = pr.ret]
    /\ UNCHANGED <<req, env, v2, v3, dec, sim>>

\* fetchGasPriceNow returns or throws, then simulateSwapCostNow returns the quote
SimulateGas ==
    /\ top.pc = "gas"
    /\ \E gasOk \in BOOLEAN :
         top' = [top EXCEPT !.pc = "done",
                            !.ret = IF gasOk THEN Fulfilled(top.q) ELSE Rejected("gas-price")]
    /\ UNCHANGED <<req, env, v2, v3, dec, sim>>

----------------------------------------------------------------------------
(* Specifications *)

NoOverride == <<>>

\* DEFAULT_V3_FEE_TIERS of an unconfigured process
DefaultFeeTiers == <<100, 500, 2500, 10000>>

Request(entry, from, to, amt, multi, split, hops, tiers, engine, dex) ==
    [entry |-> entry, fromSymbol |-> from, toSymbol |-> to, amountInRaw |-> amt,
     allowMultiHop |-> multi, allowSplitRouting |-> split, maxHops |-> hops,
     feeTiers |-> tiers, engine |-> engine, dex |-> dex]

Environment(inter, addr, tiers, quoter, live) ==
    [inter |-> inter, addr |-> addr, feeTiers |-> tiers, quoter |-> quoter, live |-> live]

\* raw input amounts: one below 10, one not divisible by 100, one divisible
AmountsInRaw == {7, 105, 200}
SplitAmounts == {7, 105}

SymbolPairs == {<<"usdt", "BTCB">>, <<"BNB", "WBNB">>, <<"USDT", "XYZ">>}

\* the calls of the router, with one configured intermediate and fee tiers
\* few enough for every interleaving of the venue calls to be explored
RouterInputs ==
    {<<r, e>> \in
        {Request(entry, sp[1], sp[2], amt, multi, split, hops, tiers, engine, dex) :
            entry \in {"v2", "v3", "best", "sim"}, sp \in SymbolPairs,
            amt \in AmountsInRaw, multi \in {"undef", "true", "false"},
            split \in BOOLEAN, hops \in {HopsUndef}, tiers \in {<<>>, <<500>>},
            engine \in {"undef", "pcs"}, dex \in {"undef", "pcs-v2"}}
        \X
        {Environment(<<"wbnb">>, NoOverride, tiers, quoter, live) :
            tiers \in {<<100, 500>>}, quoter \in BOOLEAN, live \in BOOLEAN} :
        \* options an entry point does not read are left absent
        /\ r.entry # "sim" => r.engine = "undef" /\ r.dex = "undef"
        /\ r.entry = "v2" => r.feeTiers = <<>> /\ e.quoter
        /\ r.entry \in {"v2", "v3"} => ~e.live
        /\ r.entry = "sim" => /\ r.allowMultiHop # "undef"
                              /\ e.quoter /\ ~r.allowSplitRouting
        \* at most two routes in a v3 invocation: one fee tier with multi-hop
        /\ r.entry # "v2" /\ ToBool(OrTrue(r.allowMultiHop)) => r.feeTiers # <<>>
        \* the amount matters to the split search alone
        /\ r.allowSplitRouting => r.amountInRaw \in SplitAmounts /\ r.allowMultiHop # "undef"
        /\ ~r.allowSplitRouting => r.amountInRaw = 200
        \* a split search beside a running v2 quoter: two direct v3 routes on a
        \* venue with liquidity
        /\ r.entry = "best" =>
             e.live = r.allowSplitRouting
             /\ (r.allowSplitRouting =>
                   /\ r.allowMultiHop = "false" /\ r.feeTiers = <<>>
                   /\ r.amountInRaw = 105 /\ e.quoter) }

Init ==
    /\ \E in \in RouterInputs : req = in[1] /\ env = in[2]
    /\ v2 = IdleProc
    /\ v3 = IdleProc
    /\ top = TopInit
    /\ dec = NoFetches
    /\ sim = NoSimulation

Next ==
    \/ CallV2
    \/ CallV3
    \/ CallPancakeBest
    \/ CallSimulate
    \/ \E i \in 1..Len(v2.res) : V2CallReturn(i)
    \/ V2Rank
    \/ \E k \in {1, 2} : V2SplitCallReturn(k)
    \/ \E i \in 1..Len(v3.res) : V3RouteReturn(i)
    \/ V3Rank
    \/ \E k \in {1, 2} : V3SplitCallReturn(k)
    \/ ReturnQuoter
    \/ ReturnPancakeBest
    \/ OneInchReturn
    \/ SimulateQuoted
    \/ SimulateGas

Spec == Init /\ [][Next]_vars

----------------------------------------------------------------------------
(* Properties of the router *)

Returned(pr) == pr.pc = "done" /\ pr.ret.st = "ok"

\* the invocation got past symbol resolution and evaluated its candidates
Evaluated(pr) ==
    pr.pc = "done" /\ pr.ret.err \notin {"unknown-asset", "quoter-unavailable"}

NonZero(pr) == {i \in 1..Len(pr.res) : pr.res[i].out > 0}

\* the largest output among the candidates at the full amount
BestSingleOut(pr) ==
    LET outs == {pr.res[i].out : i \in 1..Len(pr.res)}
    IN  CHOOSE m \in outs : \A x \in outs : m >= x

BothQuoted == req.entry = "best" /\ top.pc = "done" /\ v2.ret.st = "ok" /\ v3.ret.st = "ok"

\* C1: when both quoters return a quote, quotePancakeBest returns the one with
\* the larger amountOutRaw under that venue's label: the v3 quote as 'pcs-v3'
\* only if its raw output is strictly greater, otherwise the v2 quote as 'pcs-v2'.
C1_BestOfBoth ==
    BothQuoted =>
        LET a2 == v2.ret.q.amountOutRaw
            a3 == v3.ret.q.amountOutRaw
        IN  /\ top.ret.st = "ok"
            /\ top.ret.q.amountOutRaw = Max(a2, a3)
            /\ a3 > a2 => top.ret.q = [v3.ret.q EXCEPT !.provider = "pcs-v3"]
            /\ a3 <= a2 => top.ret.q = [v2.ret.q EXCEPT !.provider = "pcs-v2"]

\* v2 quoted 1 and v3 quoted 2 on the direct path: the v3 quote came back
C1_Witness ==
    /\ BothQuoted
    /\ v2.ret.q.amountOutRaw = 1 /\ v3.ret.q.amountOutRaw = 2
    /\ Len(v2.ret.q.path) = 2 /\ Len(v3.ret.q.path) = 2
    /\ top.ret.q.provider = "pcs-v3" /\ top.ret.q.amountOutRaw = 2

NoZeroQuote(pr, noRoute) ==
    /\ Returned(pr) => pr.ret.q.amountOutRaw > 0
    /\ Evaluated(pr) /\ NonZero(pr) = {} => pr.ret = Rejected(noRoute)

\* C2: every quote a quoter or quotePancakeBest returns, single-route or split,
\* has amountOutRaw > 0; when every candidate evaluates to zero or fails the
\* call is rejected with the no-route error.
C2_NoZeroQuote ==
    /\ NoZeroQuote(v2, "no-v2-route")
    /\ NoZeroQuote(v3, "no-v3-route")
    /\ top.ret.st = "ok" => top.ret.q.amountOutRaw > 0
    /\ req.entry = "best" /\ top.pc = "done" /\ Evaluated(v2) /\ Evaluated(v3)
         /\ NonZero(v2) = {} /\ NonZero(v3) = {} => top.ret = Rejected("no-pancake-route")

\* two v2 candidates, one answering zero and one throwing: no-route error
C2_Witness ==
    /\ v2.pc = "done" /\ Len(v2.res) = 2
    /\ v2.res[1].out = 0 /\ ~v2.res[1].threw /\ v2.res[2].threw
    /\ v2.ret = Rejected("no-v2-route")

FailureAbsorbed(pr) ==
    /\ \A i \in 1..Len(pr.res) : pr.res[i].threw => pr.res[i].out = 0
    /\ \A k \in 1..Len(pr.ranked) : pr.ranked[k].out > 0
    /\ pr.ranked # <<>> => Len(pr.ranked) = Cardinality(NonZero(pr))
    /\ pr.pc = "done" /\ NonZero(pr) # {} => pr.ret.st = "ok"

\* C3: within one quoter invocation a candidate whose venue call throws (revert,
\* timeout, undecodable response) is recorded with output 0 and left out of the
\* ranking; the invocation is not aborted, and returns a quote if another
\* candidate has a non-zero output.
C3_FailureAbsorbed == FailureAbsorbed(v2) /\ FailureAbsorbed(v3)

\* the direct candidate threw, the second answered: its quote is returned
C3_Witness ==
    /\ v2.pc = "done" /\ Len(v2.res) = 2
    /\ v2.res[1].threw /\ v2.res[2].out > 0
    /\ v2.ret.st = "ok" /\ v2.ret.q.path = v2.cands[2]
    /\ Len(v2.ranked) = 1

BestSettled == req.entry = "best" /\ top.pc = "done"

\* C4: quotePancakeBest fails only if both quoters fail; if exactly one fails,
\* for whatever error, the other venue's quote is returned under its own label.
C4_FailsOnlyIfBoth ==
    BestSettled =>
        /\ top.ret.st = "err" <=> (v2.ret.st = "err" /\ v3.ret.st = "err")
        /\ v2.ret.st = "err" /\ v3.ret.st = "ok"
             => top.ret = Fulfilled([v3.ret.q EXCEPT !.provider = "pcs-v3"])
        /\ v2.ret.st = "ok" /\ v3.ret.st = "err"
             => top.ret = Fulfilled([v2.ret.q EXCEPT !.provider = "pcs-v2"])

\* the v3 quoter is unavailable and the v2 quote comes back as 'pcs-v2'
C4_Witness ==
    /\ BestSettled
    /\ v3.ret = Rejected("quoter-unavailable") /\ v2.ret.st = "ok"
    /\ top.ret.st = "ok" /\ top.ret.q.provider = "pcs-v2"

AggregatorFailed == top.ret.err \in {"oneinch-request", "no-oneinch-route"}

\* the aggregator is the engine: named by the request, or left to the default
ViaAggregator == req.entry = "sim" /\ req.engine \in {"undef", "oneinch"}

\* C5 as stated: with the aggregator as the engine and a venue that has a
\* non-zero route, a failure of the aggregator's quote does not fail the request.
C5_AggregatorNeverBlocks ==
    ViaAggregator /\ env.live /\ top.pc = "done" => ~AggregatorFailed

\* C5 amended: with the aggregator as the engine, simulateSwapCostNow asks the
\* aggregator alone: no on-chain quoter is invoked, a failure of the
\* aggregator's quote fails the request, and a returned quote is the
\* aggregator's, with a non-zero output.
C5_EngineSelects ==
    ViaAggregator =>
        /\ v2.pc = "idle" /\ v3.pc = "idle"
        /\ top.ret.st = "ok" => top.ret.q.provider = "oneinch" /\ top.ret.q.amountOutRaw > 0
        /\ top.pc = "done" /\ top.ret.st = "err"
             => AggregatorFailed \/ top.ret.err \in {"unknown-asset", "gas-price"}

\* the aggregator failed beside a venue with liquidity: the request failed, and
\* no on-chain quoter ran
C5_Witness ==
    /\ ViaAggregator /\ env.live /\ req.engine = "undef"
    /\ top.pc = "done" /\ top.ret = Rejected("oneinch-request")
    /\ v2.pc = "idle" /\ v3.pc = "idle"

SplitOnlyIfBetter(pr) ==
    Returned(pr) =>
        /\ pr.ret.q.amountOutRaw >= BestSingleOut(pr)
        /\ pr.ret.q.isSplit => /\ pr.allowSplit /\ pr.seen.steps > 0
                               /\ pr.ret.q.amountOutRaw > BestSingleOut(pr)
        /\ pr.seen.steps > 0 => (pr.ret.q.isSplit <=> pr.seen.max > BestSingleOut(pr))
        /\ ~pr.ret.q.isSplit => /\ pr.ret.q.amountOutRaw = BestSingleOut(pr)
                                /\ pr.ret.q.path = pr.ranked[1].path

\* C6: with split routing allowed a split quote is returned only if the best
\* combined output over the grid strictly exceeds the output of the best-ranked
\* route at 100%; on a tie or a lower combined output the unsplit best route is
\* returned; the returned amountOutRaw is never below the best single output.
C6_SplitOnlyIfBetter == SplitOnlyIfBetter(v2) /\ SplitOnlyIfBetter(v3)

\* a search whose best combined output ties the best single route: no split
C6_Witness ==
    /\ Returned(v3) /\ v3.allowSplit /\ v3.seen.steps = 9
    /\ v3.seen.max = BestSingleOut(v3) /\ ~v3.ret.q.isSplit
    /\ v3.ret.q.amountOutRaw = BestSingleOut(v3)

SplitInputsExact(pr) ==
    Returned(pr) /\ pr.ret.q.isSplit =>
        LET parts == pr.ret.q.parts
        IN  /\ Len(parts) = 2
            /\ pr.ret.q.amountInRaw = pr.amountInRaw
            /\ parts[1].amountInRaw + parts[2].amountInRaw = pr.ret.q.amountInRaw
            /\ parts[1].amountInRaw = pr.seen.ins[1]
            /\ parts[2].amountInRaw = pr.seen.ins[2]

\* C7: in every split quote the two parts' amountInRaw add up to the total
\* amountInRaw exactly, for amounts divisible by 100 or not, and each part's
\* amountInRaw is the amount that was quoted for its route at the chosen step.
C7_SplitInputsExact == SplitInputsExact(v2) /\ SplitInputsExact(v3)

\* a split of 105 whose first share was rounded down
C7_Witness ==
    /\ Returned(v2) /\ v2.ret.q.isSplit /\ v2.amountInRaw = 105
    /\ v2.ret.q.parts[1].amountInRaw * 100 < 105 * v2.bestPercentToR1
    /\ v2.ret.q.parts[1].amountInRaw + v2.ret.q.parts[2].amountInRaw = 105

Grid == {10, 20, 30, 40, 50, 60, 70, 80, 90}

GridSearch(pr) ==
    /\ pr.pc = "split" =>
         /\ pr.p \in Grid /\ pr.seen.steps * 10 = pr.p - 10
         /\ pr.fl[1].amt = (pr.amountInRaw * pr.p) \div 100
         /\ pr.fl[2].amt = pr.amountInRaw - pr.fl[1].amt
    /\ pr.pc = "done" /\ pr.allowSplit /\ Len(pr.ranked) >= 2 => pr.seen.steps = 9
    /\ Returned(pr) /\ pr.ret.q.isSplit =>
         LET q == pr.ret.q
         IN  /\ q.amountOutRaw = pr.seen.max
             /\ q.amountOutRaw = q.parts[1].amountOutRaw + q.parts[2].amountOutRaw
             /\ <<q.parts[1].amountOutRaw, q.parts[2].amountOutRaw>> = pr.seen.outs
             /\ q.parts[1].amountInRaw = (pr.amountInRaw * pr.seen.pct) \div 100
             /\ q.parts[1].path = pr.ranked[1].path
             /\ q.parts[2].path = pr.ranked[2].path

\* C8: the split search evaluates exactly the percentages 10, 20, ..., 90 for the
\* best-ranked route, the remainder going to the second-ranked route; a returned
\* split is the step of maximum combined output, the lowest percentage among
\* equal maxima, and its amountOutRaw is the sum of that step's two outputs.
C8_GridSearch == GridSearch(v2) /\ GridSearch(v3)

\* 1 at 100%, 2 combined at 70/30: the 70/30 split is returned with total 2
C8_Witness ==
    /\ Returned(v2) /\ v2.ret.q.isSplit
    /\ BestSingleOut(v2) = 1 /\ v2.seen.pct = 70 /\ v2.ret.q.amountOutRaw = 2
    /\ v2.ret.q.parts[1].amountOutRaw = 1 /\ v2.ret.q.parts[2].amountOutRaw = 1

Route(r) == <<r.path, r.fees>>

\* the two best routes over both venues are the best v2 and the best v3 route
TopTwoCrossVenue ==
    /\ v2.ranked # <<>> /\ v3.ranked # <<>>
    /\ Len(v2.ranked) >= 2 => v3.ranked[1].out > v2.ranked[2].out
    /\ Len(v3.ranked) >= 2 => v2.ranked[1].out > v3.ranked[2].out

\* the pair of routes a quoter ran its split search over
SearchedPair(pr) ==
    IF pr.seen.steps > 0 THEN {Route(pr.ranked[1]), Route(pr.ranked[2])} ELSE {}

\* C9 as stated: when split routing is allowed and the two best-ranked routes
\* over all venues are one v2 and one v3 route, the split search is run over
\* that cross-venue pair.
C9_CrossVenueSplit ==
    BestSettled /\ req.allowSplitRouting /\ TopTwoCrossVenue =>
        LET cross == {Route(v2.ranked[1]), Route(v3.ranked[1])}
        IN  SearchedPair(v2) = cross \/ SearchedPair(v3) = cross

SameVenueParts(pr) ==
    Returned(pr) /\ pr.ret.q.isSplit =>
        /\ Len(pr.ranked) >= 2
        /\ pr.ret.q.parts[1].path = pr.ranked[1].path
        /\ pr.ret.q.parts[2].path = pr.ranked[2].path

\* C9 amended: the split search runs inside one venue quoter, over the two
\* best-ranked routes of that venue, so both parts of a split quote belong to
\* the same venue; quotePancakeBest runs no split search in the v2 quoter, and a
\* split it returns is the v3 quoter's own split.
C9_SplitWithinVenue ==
    /\ SameVenueParts(v2) /\ SameVenueParts(v3)
    /\ req.entry = "best" => ~v2.allowSplit /\ v2.seen.steps = 0
    /\ BestSettled /\ top.ret.q.isSplit
         => top.ret.q = [v3.ret.q EXCEPT !.provider = "pcs-v3"]

\* the best v2 route and the best v3 route lead, and the split that came back
\* is made of the two v3 routes
C9_Witness ==
    /\ BestSettled /\ req.allowSplitRouting /\ TopTwoCrossVenue
    /\ top.ret.q.isSplit /\ v2.ret.st = "ok"
    /\ SearchedPair(v3) = {Route(v3.ranked[1]), Route(v3.ranked[2])}

----------------------------------------------------------------------------
(* Enumeration: the quoters started on a wide range of symbols, intermediates *)
(* and hop options; only the candidate lists are built                        *)

EnumSymbols == {"usdt", "BNB", "WBNB", "USDC", "BTCB", "XYZ"}

\* SERVER_QUOTE_INTERMEDIATES: unset, or a list of symbols
EnumIntermediates == {<<>>, <<"wbnb">>, <<"USDT", "USDC">>, <<"XYZ">>}

\* ADDR_USDC set to the USDT address written in lower case
OverrideUSDC == [s \in {"USDC"} |-> <<"55d3", "L">>]

EnumMaxHops == {HopsUndef, HopsNaN} \cup {HopsNum(n) : n \in {1, 2, 3, 4, 5}}

InitEnum ==
    /\ req \in {Request(entry, from, to, 200, multi, FALSE, hops, tiers, "undef", "undef") :
                  entry \in {"v2", "v3", "best"}, from \in EnumSymbols, to \in EnumSymbols,
                  multi \in {"undef", "true", "false"}, hops \in EnumMaxHops,
                  tiers \in {<<>>, <<500>>}}
    /\ env \in {Environment(inter, addr, <<100, 500>>, TRUE, FALSE) :
                  inter \in EnumIntermediates, addr \in {NoOverride, OverrideUSDC}}
    /\ req.entry = "v2" => req.feeTiers = <<>>
    /\ v2 = IdleProc
    /\ v3 = IdleProc
    /\ top = TopInit
    /\ dec = NoFetches
    /\ sim = NoSimulation

NextEnum ==
    \/ CallV2
    \/ CallV3
    \/ CallPancakeBest

SpecEnum == InitEnum /\ [][NextEnum]_vars

----------------------------------------------------------------------------
(* C10: the direct path among the candidates *)

fromAddrOf == getKnownTokenAddress(env, ToUpperCase(req.fromSymbol))
toAddrOf == getKnownTokenAddress(env, ToUpperCase(req.toSymbol))

InSeq(x, s) == \E i \in 1..Len(s) : s[i] = x

\* the direct path is a v2 candidate, and a v3 route with every fee tier
DirectAmongV2 == InSeq(<<fromAddrOf, toAddrOf>>, v2.cands)
DirectAmongV3 ==
    LET tiers == feeTiersOf(env, req)
    IN  \A t \in 1..Len(tiers) :
            InSeq([tokens |-> <<fromAddrOf, toAddrOf>>, fees |-> <<tiers[t]>>], v3.cands)

\* the symbols differ and both resolve, and the quoter has built its candidates
EnumeratedV2 == v2.pc = "calls" /\ ToUpperCase(req.fromSymbol) # ToUpperCase(req.toSymbol)
EnumeratedV3 == v3.pc = "calls" /\ ToUpperCase(req.fromSymbol) # ToUpperCase(req.toSymbol)

DistinctAssets == Lower(fromAddrOf) # Lower(toAddrOf)

----------------------------------------------------------------------------
(* C11: no consecutive duplicates in a candidate *)

\* two neighbours of the path are the same address, compared in lower case
HasConsecutiveDuplicate(path) ==
    \E i \in 1..(Len(path) - 1) : Lower(path[i]) = Lower(path[i + 1])

\* the paths the invocation pr handed to addPath / addRoute
Generated(pr) ==
    GeneratedPaths(fromAddrOf, toAddrOf, pr.allowMultiHop,
                   resolveSymbolsToAddresses(env, getPreferredIntermediates(env)))

\* C11: no candidate path of the v2 quoter and no route of the v3 quoter holds
\* two consecutive identical asset addresses, compared case-insensitively.
C11_NoConsecutiveDuplicates ==
    /\ \A i \in 1..Len(v2.cands) : ~HasConsecutiveDuplicate(v2.cands[i])
    /\ \A i \in 1..Len(v3.cands) : ~HasConsecutiveDuplicate(v3.cands[i].tokens)

\* a generated path whose neighbours are one address written in two cases was
\* cleaned, and the cleaned path is a candidate of both quoters
C11_Witness ==
    /\ req.entry = "best" /\ v2.pc = "calls" /\ v3.pc = "calls"
    /\ \E k \in 1..Len(Generated(v2)) :
         LET g == Generated(v2)[k]
         IN  /\ \E i \in 1..(Len(g) - 1) : g[i] # g[i + 1] /\ Lower(g[i]) = Lower(g[i + 1])
             /\ InSeq(uniqueAddresses(g), v2.cands)
             /\ \E j \in 1..Len(v3.cands) : v3.cands[j].tokens = uniqueAddresses(g)

----------------------------------------------------------------------------
(* C12: generated paths with a repeated neighbour *)

\* the generated paths of pr that hold no consecutive duplicate and pass the
\* length test
NonDegenerateKept(pr, keeps(_, _, _)) ==
    LET gen == Generated(pr)
        sound(g) == ~HasConsecutiveDuplicate(g) /\ keeps(g, pr.allowMultiHop, pr.maxHops)
    IN  SelectSeq(gen, sound)

NoRepeat(s) == \A i, j \in 1..Len(s) : i # j => s[i] # s[j]

\* C12: a generated path that holds two consecutive identical addresses is
\* dropped: the candidates are exactly the generated paths without such a
\* repetition (that pass the length test), and no candidate list holds the same
\* asset sequence, or the same route and fees, twice.
C12_DegenerateDropped ==
    /\ v2.pc = "calls" => /\ v2.cands = NonDegenerateKept(v2, addPathKeeps)
                          /\ NoRepeat(v2.cands)
    /\ v3.pc = "calls" /\ NoRepeat(feeTiersOf(env, req)) =>
         /\ \A i \in 1..Len(v3.cands) : InSeq(v3.cands[i].tokens, NonDegenerateKept(v3, addRouteKeeps))
         /\ NoRepeat(v3.cands)

----------------------------------------------------------------------------
(* C13: the length of a candidate *)

\* the largest number of assets the option allows: the value brought into
\* 2..4, 3 when the option is absent; a NaN option bounds nothing below the 4
\* assets of the longest generated path
AssetLimit(h) ==
    CASE h.k = "undef" -> 3
      [] h.k = "nan"   -> 4
      [] h.v < 2       -> 2
      [] h.v > 4       -> 4
      [] OTHER         -> h.v

WithinHops(path, pr) ==
    /\ Len(path) >= 2
    /\ Len(path) <= AssetLimit(req.maxHops)
    /\ ~pr.allowMultiHop => Len(path) = 2

\* C13: every candidate path has at least 2 assets and at most maxHops assets,
\* maxHops being the option brought into [2, 4] (3 by default); with multi-hop
\* off every candidate has exactly 2 assets.
C13_HopBounds ==
    /\ \A i \in 1..Len(v2.cands) : WithinHops(v2.cands[i], v2)
    /\ \A i \in 1..Len(v3.cands) : /\ WithinHops(v3.cands[i].tokens, v3)
                                   /\ Len(v3.cands[i].fees) = Len(v3.cands[i].tokens) - 1

\* the option left out: both quoters hold 3-asset candidates, and none longer,
\* although a 4-asset path was generated
C13_Witness ==
    /\ req.entry = "best" /\ req.maxHops = HopsUndef
    /\ v2.pc = "calls" /\ v3.pc = "calls"
    /\ \E k \in 1..Len(Generated(v2)) : Len(uniqueAddresses(Generated(v2)[k])) = 4
    /\ \E i \in 1..Len(v2.cands) : Len(v2.cands[i]) = 3
    /\ \E i \in 1..Len(v3.cands) : Len(v3.cands[i].tokens) = 3

----------------------------------------------------------------------------
(* Fee expansion: the v3 quoter started with one to seven fee tiers *)

\* params.feeTiers: absent, or a list of one to seven tiers
TierLists ==
    {<<>>, <<500>>, <<2500, 100>>, <<100, 500, 2500>>,
     <<100, 500, 2500, 10000, 50, 3000>>,
     <<100, 500, 2500, 10000, 50, 3000, 20000>>}

InitFees ==
    /\ req \in {Request("v3", pair[1], pair[2], 200, multi, FALSE, hops, tiers, "undef", "undef") :
                  pair \in SymbolPairs \cup {<<"USDC", "BNB">>},
                  multi \in {"true", "false"},
                  hops \in {HopsUndef, HopsNum(2), HopsNum(4)}, tiers \in TierLists}
    /\ env \in {Environment(inter, NoOverride, DefaultFeeTiers, TRUE, FALSE) :
                  inter \in {<<"wbnb">>, <<"USDT", "BTCB">>}}
    /\ v2 = IdleProc
    /\ v3 = IdleProc
    /\ top = TopInit
    /\ dec = NoFetches
    /\ sim = NoSimulation

NextFees == CallV3

SpecFees == InitFees /\ [][NextFees]_vars

RECURSIVE Pow(_, _)
Pow(b, e) == IF e = 0 THEN 1 ELSE b * Pow(b, e - 1)

\* the cleaned paths addRoute accepted, in call order
AcceptedPaths(pr) ==
    LET gen == Generated(pr)
        cleaned == [k \in 1..Len(gen) |-> uniqueAddresses(gen[k])]
        keeps(c) == addRouteKeeps(c, pr.allowMultiHop, pr.maxHops)
    IN  SelectSeq(cleaned, keeps)

\* the c-th element of T^h, the first hop varying slowest
FeeTuple(T, h, c) ==
    [j \in 1..h |-> T[(((c - 1) \div Pow(Len(T), h - j)) % Len(T)) + 1]]

\* where the routes of the k-th accepted path start in the route list
RouteOffset(paths, T, k) ==
    LET F[m \in 0..Len(paths)] ==
            IF m = 0 THEN 0 ELSE F[m - 1] + Pow(Len(T), Len(paths[m]) - 1)
    IN  F[k - 1]

\* C14: every accepted path with h hops is expanded into exactly |T|^h
\* route+fee combinations, one per element of T^h, each with h fee values, T
\* being the first at most 6 configured fee tiers.
C14_FeeExpansion ==
    v3.pc = "calls" =>
        LET T == feeTiersOf(env, req)
            paths == AcceptedPaths(v3)
        IN  /\ Len(T) <= 6
            /\ Len(v3.cands) = RouteOffset(paths, T, Len(paths) + 1)
            /\ \A k \in 1..Len(paths) :
                 LET h == Len(paths[k]) - 1
                 IN  \A c \in 1..Pow(Len(T), h) :
                        v3.cands[RouteOffset(paths, T, k) + c] =
                            [tokens |-> paths[k], fees |-> FeeTuple(T, h, c)]

\* seven tiers given: a 3-hop path carries 216 combinations of the first six
C14_Witness ==
    /\ v3.pc = "calls" /\ Len(req.feeTiers) = 7 /\ Len(feeTiersOf(env, req)) = 6
    /\ \E k \in 1..Len(AcceptedPaths(v3)) :
         LET p == AcceptedPaths(v3)[k]
         IN  /\ Len(p) = 4
             /\ RouteOffset(AcceptedPaths(v3), feeTiersOf(env, req), k + 1)
                  - RouteOffset(AcceptedPaths(v3), feeTiersOf(env, req), k) = 216
             /\ Cardinality({i \in 1..Len(v3.cands) : v3.cands[i].tokens = p}) = 216
             /\ Cardinality({v3.cands[i].fees : i \in {j \in 1..Len(v3.cands) : v3.cands[j].tokens = p}}) = 216

----------------------------------------------------------------------------
(* encodeV3Path: a hex string is a sequence of hex digits 0..15; an address   *)
(* is abbreviated to its first AddrDigits digits                              *)

\* the longest token list handed to encodeV3Path
MaxTokens == 4

AddrDigits == 4
FeeDigits == 6

\* the hex digits of an address: what toLowerCase().replace(/^0x/, '') leaves,
\* the same for every way of casing the address
AddrHex(addr) ==
    CASE addr[1] = "bb4c" -> <<11, 11, 4, 12>>
      [] addr[1] = "55d3" -> <<5, 5, 13, 3>>
      [] addr[1] = "8ac7" -> <<8, 10, 12, 7>>
      [] addr[1] = "7130" -> <<7, 1, 3, 0>>
      [] addr[1] = "e9e7" -> <<14, 9, 14, 7>>
      [] addr[1] = "2170" -> <<2, 1, 7, 0>>
      [] OTHER            -> <<0, 14, 0, 9>>

\* Number.prototype.toString(16) of a non-negative integer
RECURSIVE toString16(_)
toString16(n) == IF n < 16 THEN <<n>> ELSE Append(toString16(n \div 16), n % 16)

\* padStart without padding
padStartNone(s, width) == s

\* String.prototype.padStart(width, '0')
padStart(s, width) ==
    IF Len(s) >= width THEN s ELSE [i \in 1..(width - Len(s)) |-> 0] \o s

\* encodeV3Path: the two guards, then token0 | fee0 | token1 | ...
encodeV3Path(tokens, fees) ==
    IF Len(tokens) < 2 THEN Rejected("encodeV3Path: need at least 2 tokens")
    ELSE IF Len(fees) # Len(tokens) - 1 THEN Rejected("encodeV3Path: fees length mismatch")
    ELSE LET F[i \in 0..Len(fees)] ==
                 IF i = 0 THEN AddrHex(Lower(tokens[1]))
                 ELSE F[i - 1] \o padStart(toString16(fees[i]), FeeDigits)
                             \o AddrHex(Lower(tokens[i + 1]))
         IN  Fulfilled(F[Len(fees)])

\* token and fee lists: addresses written in mixed and in lower case; fees that
\* need padding, the largest 3-byte fee, and the first fee beyond 3 bytes
CodecAddresses == {DEFAULT_WBNB, KNOWN_TOKENS["USDT"], KNOWN_TOKENS["USDC"]}
CodecFees == {100, 16777215, 16777216}

SeqsUpTo(S, n) == UNION {[1..k -> S] : k \in 0..n}

InitCodec ==
    /\ req \in {[entry |-> "encode", tokens |-> t, fees |-> f] :
                  t \in SeqsUpTo(CodecAddresses, MaxTokens),
                  f \in SeqsUpTo(CodecFees, MaxTokens - 1)}
    /\ env = Environment(<<>>, NoOverride, DefaultFeeTiers, TRUE, FALSE)
    /\ v2 = IdleProc
    /\ v3 = IdleProc
    /\ top = TopInit
    /\ dec = NoFetches
    /\ sim = NoSimulation

\* one call of encodeV3Path
EncodePath ==
    /\ req.entry = "encode" /\ top.pc = "init"
    /\ top' = [top EXCEPT !.pc = "done", !.ret = encodeV3Path(req.tokens, req.fees)]
    /\ UNCHANGED <<req, env, v2, v3, dec, sim>>

NextCodec == EncodePath

SpecCodec == InitCodec /\ [][NextCodec]_vars

\* the value of a run of hex digits
RECURSIVE FromHex(_)
FromHex(s) == IF s = <<>> THEN 0 ELSE FromHex(SubSeq(s, 1, Len(s) - 1)) * 16 + s[Len(s)]

NotAPath == [tokens |-> <<>>, fees |-> <<>>]

\* reading the bytes as asset0 | fee0 | asset1 | fee1 | ... | assetN
decodeV3Path(hex) ==
    LET step == FeeDigits + AddrDigits
        n == (Len(hex) - AddrDigits) \div step
    IN  IF Len(hex) < AddrDigits \/ (Len(hex) - AddrDigits) % step # 0 THEN NotAPath
        ELSE [tokens |-> [i \in 1..(n + 1) |->
                             SubSeq(hex, (i - 1) * step + 1, (i - 1) * step + AddrDigits)],
              fees |-> [i \in 1..n |->
                             FromHex(SubSeq(hex, (i - 1) * step + AddrDigits + 1, i * step))]]

\* a token list of at least two, a fee per hop, every fee a 3-byte value
WellFormedPath ==
    /\ Len(req.tokens) >= 2 /\ Len(req.fees) = Len(req.tokens) - 1
    /\ \A i \in 1..Len(req.fees) : req.fees[i] < 16777216

Encoded == req.entry = "encode" /\ top.pc = "done"

\* C15: decoding the bytes of encodeV3Path(tokens, fees) as 20-byte addresses
\* interleaved with 3-byte fees gives back the tokens (as addresses) and the
\* fees, for every token list of length >= 2 with a 3-byte fee per hop;
\* encodeV3Path rejects fewer than 2 tokens and a fee count other than tokens - 1.
C15_PathRoundTrip ==
    Encoded =>
        /\ Len(req.tokens) < 2 => top.ret = Rejected("encodeV3Path: need at least 2 tokens")
        /\ Len(req.tokens) >= 2 /\ Len(req.fees) # Len(req.tokens) - 1
             => top.ret = Rejected("encodeV3Path: fees length mismatch")
        /\ WellFormedPath =>
             /\ top.ret.st = "ok"
             /\ Len(top.ret.q) = AddrDigits * Len(req.tokens) + FeeDigits * Len(req.fees)
             /\ decodeV3Path(top.ret.q) =
                  [tokens |-> [i \in 1..Len(req.tokens) |-> AddrHex(req.tokens[i])],
                   fees |-> req.fees]

\* a 3-hop path through mixed-case and lower-case addresses, with a fee that
\* needs padding and the largest 3-byte fee, was encoded and decodes to itself
C15_Witness ==
    /\ Encoded /\ Len(req.tokens) = 4 /\ WellFormedPath
    /\ req.fees = <<100, 16777215, 100>>
    /\ req.tokens[1] = DEFAULT_WBNB /\ req.tokens[2] = KNOWN_TOKENS["USDC"]
    /\ decodeV3Path(top.ret.q).fees = req.fees

----------------------------------------------------------------------------
(* Ranking: one quoter on a request with five or six candidates, every call   *)
(* completing in any order with any answer                                    *)

\* default intermediates with the default hop bound (USDT is an intermediate
\* and the source), and two foreign intermediates with 4-asset paths allowed
RankScenarios ==
    {[inter |-> <<>>, hops |-> HopsUndef],
     [inter |-> <<"WBNB", "USDC">>, hops |-> HopsNum(4)]}

InitRank ==
    /\ \E entry \in {"v2", "v3"}, sc \in RankScenarios :
         /\ req = Request(entry, "usdt", "BTCB", 200, "true", FALSE, sc.hops,
                          IF entry = "v3" THEN <<500>> ELSE <<>>, "undef", "undef")
         /\ env = Environment(sc.inter, NoOverride, DefaultFeeTiers, TRUE, FALSE)
    /\ v2 = IdleProc
    /\ v3 = IdleProc
    /\ top = TopInit
    /\ dec = NoFetches
    /\ sim = NoSimulation

NextRank ==
    \/ CallV2
    \/ CallV3
    \/ \E i \in 1..Len(v2.res) : V2CallReturn(i)
    \/ V2Rank
    \/ \E i \in 1..Len(v3.res) : V3RouteReturn(i)
    \/ V3Rank
    \/ ReturnQuoter

SpecRank == InitRank /\ [][NextRank]_vars


----------------------------------------------------------------------------
(* C16, C17: the order of the ranking *)

\* the ranking entry of candidate i of a quoter
EntryV2(i) == [path |-> v2.cands[i], fees |-> <<>>, out |-> v2.res[i].out]
EntryV3(i) == [path |-> v3.cands[i].tokens, fees |-> v3.cands[i].fees, out |-> v3.res[i].out]

\* candidate i goes before candidate j: larger output, then earlier enumeration
GoesBefore(pr, i, j) ==
    \/ pr.res[i].out > pr.res[j].out
    \/ pr.res[i].out = pr.res[j].out /\ i < j

\* the candidate that belongs at position p of the ranking
CandidateAt(pr, p) ==
    CHOOSE i \in NonZero(pr) :
        Cardinality({j \in NonZero(pr) : GoesBefore(pr, j, i)}) = p - 1

Ranked(pr) == pr.ranked # <<>>

\* C16: the ranking holds the non-zero candidates by amountOutRaw descending;
\* of two entries with equal output the one with fewer hops comes first, and of
\* two with equal output and equal hop count the one enumerated first.
C16_RankOrder ==
    /\ Ranked(v2) =>
         /\ \A p \in 1..Len(v2.ranked) : v2.ranked[p] = EntryV2(CandidateAt(v2, p))
         /\ \A p, q \in 1..Len(v2.ranked) :
              p < q /\ v2.ranked[p].out = v2.ranked[q].out
                 => Len(v2.ranked[p].path) <= Len(v2.ranked[q].path)
    /\ Ranked(v3) =>
         /\ \A p \in 1..Len(v3.ranked) : v3.ranked[p] = EntryV3(CandidateAt(v3, p))
         /\ \A p, q \in 1..Len(v3.ranked) :
              p < q /\ v3.ranked[p].out = v3.ranked[q].out
                 => Len(v3.ranked[p].path) <= Len(v3.ranked[q].path)

InPlace(pr) ==
    \A k \in 1..Len(pr.res) : pr.res[k].st = "done" => pr.res[k].of = k

\* C17: the ranking and the winner of a quoter are a function of the output
\* each candidate's venue call gave: every result sits at its candidate's place
\* whatever the order in which the calls completed, the ranked order is by
\* output descending and then by place, and the unsplit winner is its head.
C17_OrderIndependent ==
    /\ InPlace(v2) /\ InPlace(v3)
    /\ Ranked(v2) => /\ Len(v2.ranked) = Cardinality(NonZero(v2))
                     /\ \A p \in 1..Len(v2.ranked) : v2.ranked[p] = EntryV2(CandidateAt(v2, p))
    /\ Ranked(v3) => /\ Len(v3.ranked) = Cardinality(NonZero(v3))
                     /\ \A p \in 1..Len(v3.ranked) : v3.ranked[p] = EntryV3(CandidateAt(v3, p))
    /\ Returned(v2) /\ ~v2.ret.q.isSplit =>
         /\ v2.ret.q.path = EntryV2(CandidateAt(v2, 1)).path
         /\ v2.ret.q.amountOutRaw = EntryV2(CandidateAt(v2, 1)).out
    /\ Returned(v3) /\ ~v3.ret.q.isSplit =>
         /\ v3.ret.q.path = EntryV3(CandidateAt(v3, 1)).path
         /\ v3.ret.q.fees = EntryV3(CandidateAt(v3, 1)).fees
         /\ v3.ret.q.amountOutRaw = EntryV3(CandidateAt(v3, 1)).out

\* calls completed out of enumeration order, two candidates tie on the largest
\* output, and the earlier one of the two is the winner
C17_Witness ==
    /\ Returned(v2) /\ v2.overtook /\ Len(v2.cands) = 5
    /\ v2.res[2].out = 2 /\ v2.res[4].out = 2 /\ v2.res[1].out = 1
    /\ v2.ret.q.path = v2.cands[2] /\ Len(v2.ranked) >= 3


----------------------------------------------------------------------------
(* Slippage: amountOutMin of a quote. A tolerance is absent, NaN, or the      *)
(* fraction n / d of a percent; the values drawn are those for which the      *)
(* double (slip / 100) * 1000000 is the exact product                        *)

SlipUndef == [k |-> "undef", n |-> 0, d |-> 1]
SlipNaN == [k |-> "nan", n |-> 0, d |-> 1]
SlipNum(n, d) == [k |-> "num", n |-> n, d |-> d]

\* x ?? y
Coalesce(x, y) == IF x.k = "undef" THEN y ELSE x

\* slip = Number(params.slippagePercent ?? (process.env.SERVER_DEFAULT_SLIPPAGE_PERCENT ?? 0));
\* the quote-swap command reads Number(opts.slippage ?? 0)
slipOf(site, given, envDefault) ==
    IF site = "cli" THEN Coalesce(given, SlipNum(0, 1))
    ELSE Coalesce(given, Coalesce(envDefault, SlipNum(0, 1)))

\* Number.isFinite(slip) && slip > 0
slipApplies(slip) == slip.k = "num" /\ slip.n > 0

\* the scaled tolerance rounded up
ceilScaled(slip) == -((-(slip.n * 10000)) \div slip.d)

\* Math.floor((slip / 100) * Number(denom)), denom = 1_000_000n
floorScaled(slip) == (slip.n * 10000) \div slip.d

\* BigInt values have no width: floor(a * f / 1000000) and (a * f) mod 1000000
\* for a, f >= 0, the product taken in parts that stay inside the checker's
\* integers (a = qa * 10^6 + ra, f = qf * 10^3 + rf)
MulDivMillion(a, f) ==
    LET qa == a \div 1000000
        ra == a % 1000000
        qf == f \div 1000
        rf == f % 1000
    IN  qa * f + ((ra * qf + ((ra * rf) \div 1000)) \div 1000)

MulModMillion(a, f) ==
    LET ra == a % 1000000
        qf == f \div 1000
        rf == f % 1000
    IN  ((((ra * qf) % 1000) * 1000) + (ra * rf)) % 1000000

\* (outRaw * factor) / 1_000_000n: BigInt division truncates toward zero
bigintMulDiv(outRaw, factor) ==
    IF factor >= 0 THEN MulDivMillion(outRaw, factor) ELSE -MulDivMillion(outRaw, -factor)

\* minRaw = (outRaw * factor) / denom, factor = denom - BigInt(floor(...))
minRawOf(outRaw, slip) ==
    LET denom == 1000000
        factor == denom - floorScaled(slip)
    IN  bigintMulDiv(outRaw, factor)

NoMin == [has |-> FALSE, minRaw |-> 0]

\* the slippage block: amountOutMin is set only when the tolerance applies
amountOutMin(site, outRaw, given, envDefault) ==
    LET slip == slipOf(site, given, envDefault)
    IN  IF slipApplies(slip) THEN [has |-> TRUE, minRaw |-> minRawOf(outRaw, slip)]
        ELSE NoMin

SlipValues ==
    {SlipUndef, SlipNaN, SlipNum(0, 1), SlipNum(-1, 1), SlipNum(1, 1), SlipNum(1, 2),
     SlipNum(1, 3), SlipNum(3, 1), SlipNum(100, 1), SlipNum(150, 1)}

SlipOutputs == {1, 3, 999999, 1000000, 1234567}

InitSlip ==
    /\ req \in {[entry |-> "slippage", site |-> site, amountOutRaw |-> out,
                 slippagePercent |-> s, envDefault |-> e] :
                  site \in {"simulate", "oneinch", "cli"}, out \in SlipOutputs,
                  s \in SlipValues, e \in {SlipUndef, SlipNum(1, 2)}}
    /\ env = Environment(<<>>, NoOverride, DefaultFeeTiers, TRUE, FALSE)
    /\ v2 = IdleProc
    /\ v3 = IdleProc
    /\ top = TopInit
    /\ dec = NoFetches
    /\ sim = NoSimulation

\* the slippage block of simulateSwapCostNow, quoteWithOneInchExactIn or the
\* quote-swap command runs on a quote in hand
ApplySlippage ==
    /\ req.entry = "slippage" /\ top.pc = "init"
    /\ top' = [top EXCEPT !.pc = "done",
                          !.q = amountOutMin(req.site, req.amountOutRaw,
                                             req.slippagePercent, req.envDefault)]
    /\ UNCHANGED <<req, env, v2, v3, dec, sim>>

NextSlip == ApplySlippage

SpecSlip == InitSlip /\ [][NextSlip]_vars

SlippageDone == req.entry = "slippage" /\ top.pc = "done"

\* a tolerance s > 0 was supplied with the request
Supplied == req.slippagePercent.k = "num" /\ req.slippagePercent.n > 0

\* 1000000 - floor(s / 100 * 1000000)
FactorOfRequest == 1000000 - ((req.slippagePercent.n * 10000) \div req.slippagePercent.d)

\* floor(amountOutRaw * (1000000 - floor(s / 100 * 1000000)) / 1000000)
FloorFormula ==
    LET f == FactorOfRequest
        a == req.amountOutRaw
    IN  IF f >= 0 THEN MulDivMillion(a, f)
        ELSE -(MulDivMillion(a, -f) + (IF MulModMillion(a, -f) = 0 THEN 0 ELSE 1))

----------------------------------------------------------------------------
(* Concurrent fetchTokenDecimals calls on one decimalsCache *)

\* tokens asked for: USDT as written and in lower case (one cache key), WBNB,
\* USDC
DecimalsTokens ==
    {KNOWN_TOKENS["USDT"], Lower(KNOWN_TOKENS["USDT"]), DEFAULT_WBNB, KNOWN_TOKENS["USDC"]}

\* what the token contracts report
ChainDecimals == {6, 18}

InitDecimals ==
    /\ req \in {[entry |-> "decimals", chain |-> ch] :
                  ch \in [{Lower(t) : t \in DecimalsTokens} -> ChainDecimals]}
    /\ env = Environment(<<>>, NoOverride, DefaultFeeTiers, TRUE, FALSE)
    /\ v2 = IdleProc
    /\ v3 = IdleProc
    /\ top = TopInit
    /\ dec \in {[NoFetches EXCEPT !.calls = [c \in 1..MaxFetches |-> FetchCall(tk[c])]] :
                  tk \in [1..MaxFetches -> DecimalsTokens]}
    /\ sim = NoSimulation

\* fetchTokenDecimals up to its await: a cached address returns at once, WBNB
\* is stored as 18 without a call, any other address issues erc20.decimals()
FetchStart(c) ==
    /\ req.entry = "decimals"
    /\ dec.calls[c].pc = "start"
    /\ LET key == Lower(dec.calls[c].token)
       IN  IF cacheHas(dec.cache, key)
           THEN dec' = [dec EXCEPT !.calls[c].pc = "done",
                                   !.calls[c].ret = dec.cache[key]]
           ELSE IF key = Lower(DEFAULT_WBNB)
           THEN dec' = [dec EXCEPT !.cache = cacheSet(@, key, 18),
                                   !.written = @ \cup {<<key, 18>>},
                                   !.calls[c].pc = "done",
                                   !.calls[c].ret = 18]
           ELSE dec' = [dec EXCEPT !.calls[c].pc = "await"]
    /\ UNCHANGED <<req, env, v2, v3, top, sim>>

\* fetchTokenDecimals from its await on: the decoded value is stored when
\* Number.isFinite accepts it, 18 is stored on every other path
FetchSettle(c) ==
    /\ req.entry = "decimals"
    /\ dec.calls[c].pc = "await"
    /\ LET key == Lower(dec.calls[c].token)
       IN  \E outcome \in DecimalsOutcomes(req.chain[key]) :
               LET d == decimalsAfterCall(outcome)
               IN  dec' = [dec EXCEPT !.cache = cacheSet(@, key, d),
                                      !.written = @ \cup {<<key, d>>},
                                      !.calls[c].pc = "done",
                                      !.calls[c].ret = d,
                                      !.calls[c].rpc = IF outcome.ok THEN "answered"
                                                       ELSE "threw"]
    /\ UNCHANGED <<req, env, v2, v3, top, sim>>

NextDecimals ==
    \E c \in 1..MaxFetches : FetchStart(c) \/ FetchSettle(c)

SpecDecimals == InitDecimals /\ [][NextDecimals]_vars

----------------------------------------------------------------------------
(* C19 *)

\* the values ever stored for a key
WrittenFor(key) == {w[2] : w \in {x \in dec.written : x[1] = key}}

\* C19: once decimalsCache holds a value for an address the entry never
\* changes, whatever the interleaving of the fetchTokenDecimals calls: every
\* write for one address stores the same value, the one the cache holds.
C19_DecimalsImmutable ==
    \A key \in DOMAIN dec.cache : WrittenFor(key) = {dec.cache[key]}

\* two calls for one address both missed the cache; the contract, which
\* reports other than 18, answered one and the other threw; both returned
C19_Witness ==
    /\ req.entry = "decimals"
    /\ \E i, j \in 1..MaxFetches :
          /\ i # j
          /\ dec.calls[i].token # dec.calls[j].token
          /\ Lower(dec.calls[i].token) = Lower(dec.calls[j].token)
          /\ req.chain[Lower(dec.calls[i].token)] # 18
          /\ dec.calls[i].pc = "done" /\ dec.calls[i].rpc = "answered"
          /\ dec.calls[j].pc = "done" /\ dec.calls[j].rpc = "threw"
          /\ dec.calls[i].ret = dec.calls[j].ret
          /\ dec.cache[Lower(dec.calls[i].token)] = dec.calls[i].ret

----------------------------------------------------------------------------
(* The venue calls made for one candidate and one amount *)

\* the call shapes of the code
GetAmountsOut == "getAmountsOut"
SingleLegacy  == "quoteExactInputSingle.staticCall(tokenIn, tokenOut, fee, amountIn, 0)"
SingleStruct  == "quoteExactInputSingle.staticCall(params)"
MultiStatic   == "quoteExactInput.staticCall"
MultiPlain    == "quoteExactInput"

\* an evaluation under way: log holds the calls that have ended, in the order
\* they were issued, each with what it ended with
EvalInit == [log |-> <<>>, inflight |-> "none", out |-> 0]

\* an evaluation that asks getAmountsOut again after it threw
nextCallRetry(r, log) ==
    IF log = <<>> THEN GetAmountsOut
    ELSE IF Len(log) = 1 /\ ~log[1].o.ok THEN log[1].shape
    ELSE "none"

\* the call the code issues next after the calls of log have ended, "none"
\* when the evaluation returns.  A candidate of the v2 quoter is asked once;
\* quoteV3ExactInputSingle falls through to the struct form when the legacy
\* form throws, quoteV3ExactInput to the plain call when the static call
\* throws; evalRoute asks a two-token route in both shapes, the split loop in
\* the single one only
nextCall(r, log) ==
    LET afterSingle == IF r.phase = "rank" THEN MultiStatic ELSE "none"
        last == log[Len(log)]
    IN  IF log = <<>>
        THEN IF r.venue = "pcs-v2" THEN GetAmountsOut
             ELSE IF Len(r.tokens) = 2 THEN SingleLegacy
             ELSE MultiStatic
        ELSE CASE last.shape = GetAmountsOut -> "none"
               [] last.shape = SingleLegacy  -> IF last.o.ok THEN afterSingle ELSE SingleStruct
               [] last.shape = SingleStruct  -> afterSingle
               [] last.shape = MultiStatic   -> IF last.o.ok THEN "none" ELSE MultiPlain
               [] last.shape = MultiPlain    -> "none"

\* what a call of one shape can end with
ShapeOutcomes(shape) == IF shape = MultiPlain THEN NonStaticOutcomes ELSE AllOutcomes

\* what the call of one shape ended with; a call that was not issued counts
\* as one that threw, its value is never read
EndedWith(log, shape) ==
    IF \E k \in 1..Len(log) : log[k].shape = shape
    THEN (CHOOSE e \in {log[k] : k \in 1..Len(log)} : e.shape = shape).o
    ELSE Threw

\* the amount the evaluation returns for the candidate
evalOut(r, log) ==
    LET single == [out |-> quoteV3ExactInputSingle(EndedWith(log, SingleLegacy),
                                                   EndedWith(log, SingleStruct))]
        multi == [out |-> quoteV3ExactInput(EndedWith(log, MultiStatic),
                                            EndedWith(log, MultiPlain))]
    IN  IF r.venue = "pcs-v2" THEN evaluatePathOut(EndedWith(log, GetAmountsOut))
        ELSE IF r.phase = "rank" THEN evalRoute(r, single, multi)
        ELSE splitEvalV3(r.tokens, single, multi)

EvalCandidates ==
    {<<KNOWN_TOKENS["USDT"], KNOWN_TOKENS["BTCB"]>>,
     <<KNOWN_TOKENS["USDT"], DEFAULT_WBNB, KNOWN_TOKENS["BTCB"]>>}

InitCalls ==
    /\ req \in {[entry |-> "eval", venue |-> v, phase |-> ph, tokens |-> t,
                 amountInRaw |-> a] :
                  v \in {"pcs-v2", "pcs-v3"}, ph \in {"rank", "split"},
                  t \in EvalCandidates, a \in {100, 200}}
    /\ env = Environment(<<>>, NoOverride, DefaultFeeTiers, TRUE, FALSE)
    /\ v2 = IdleProc
    /\ v3 = IdleProc
    /\ top = [TopInit EXCEPT !.q = EvalInit]
    /\ dec = NoFetches
    /\ sim = NoSimulation

\* the evaluation issues its next call under withTimeout
VenueCall ==
    /\ req.entry = "eval" /\ top.pc = "init" /\ top.q.inflight = "none"
    /\ nextCall(req, top.q.log) # "none"
    /\ top' = [top EXCEPT !.q.inflight = nextCall(req, top.q.log)]
    /\ UNCHANGED <<req, env, v2, v3, dec, sim>>

\* the call in flight answers, reverts or runs into its timeout
VenueCallEnds ==
    /\ req.entry = "eval" /\ top.pc = "init" /\ top.q.inflight # "none"
    /\ \E o \in ShapeOutcomes(top.q.inflight) :
          top' = [top EXCEPT !.q.log = Append(@, [shape |-> top.q.inflight, o |-> o]),
                             !.q.inflight = "none"]
    /\ UNCHANGED <<req, env, v2, v3, dec, sim>>

\* the evaluation returns the candidate's amount
EvalReturns ==
    /\ req.entry = "eval" /\ top.pc = "init" /\ top.q.inflight = "none"
    /\ nextCall(req, top.q.log) = "none"
    /\ top' = [top EXCEPT !.pc = "done", !.q.out = evalOut(req, top.q.log)]
    /\ UNCHANGED <<req, env, v2, v3, dec, sim>>

NextCalls == VenueCall \/ VenueCallEnds \/ EvalReturns

SpecCalls == InitCalls /\ [][NextCalls]_vars

----------------------------------------------------------------------------
(* C20 *)

Evaluating == req.entry = "eval"

\* the shapes issued so far, the one in flight last
Issued ==
    [k \in 1..Len(top.q.log) |-> top.q.log[k].shape]
        \o (IF top.q.inflight = "none" THEN <<>> ELSE <<top.q.inflight>>)

\* call k of the evaluation threw
Failed(k) == k \in 1..Len(top.q.log) /\ ~top.q.log[k].o.ok

\* C20 as stated: a venue call that fails or runs into its timeout is the last
\* call issued for the candidate and the amount, and the candidate's output
\* is 0.
C20_NoFurtherCall ==
    Evaluating =>
        \A k \in 1..Len(top.q.log) :
            Failed(k) => /\ Len(Issued) = k
                         /\ (top.pc = "done" => top.q.out = 0)

\* C20: a failed getAmountsOut call is the last call for a v2 candidate and
\* makes its output 0.  A v3 candidate is asked through the call shapes of the
\* quoter, each issued at most once: the struct form only right after the
\* legacy form threw, the plain call only right after the static call threw;
\* its output is 0 when every call issued for it threw, and an output above 0
\* is the answer of one of its calls.
C20_NoRepeatedCall ==
    Evaluating =>
        /\ \A j, k \in 1..Len(Issued) : Issued[j] = Issued[k] => j = k
        /\ req.venue = "pcs-v2" => Len(Issued) <= 1
        /\ \A k \in 1..Len(Issued) :
              /\ Issued[k] = SingleStruct => k > 1 /\ Issued[k - 1] = SingleLegacy /\ Failed(k - 1)
              /\ Issued[k] = MultiPlain => k > 1 /\ Issued[k - 1] = MultiStatic /\ Failed(k - 1)
        /\ top.pc = "done" =>
              /\ (\A k \in 1..Len(top.q.log) : Failed(k)) => top.q.out = 0
              /\ top.q.out > 0 =>
                    \E k \in 1..Len(top.q.log) :
                        top.q.log[k].o.ok /\ top.q.log[k].o.v = top.q.out

\* the legacy single-hop call threw, the struct form that followed answered,
\* and the candidate's output is that answer
C20_Witness ==
    /\ Evaluating /\ top.pc = "done"
    /\ req.venue = "pcs-v3" /\ req.phase = "split"
    /\ Issued = <<SingleLegacy, SingleStruct>>
    /\ Failed(1) /\ ~Failed(2)
    /\ top.q.out = top.q.log[2].o.v /\ top.q.out > 0

----------------------------------------------------------------------------
(* C21 *)

\* every candidate's call has completed, each filling its own slot
AllCompleted(pr) ==
    \A i \in 1..Len(pr.res) : pr.res[i].st = "done" /\ pr.res[i].of = i

\* C21: a quoter ranks only after every candidate's call has completed or
\* timed out: a failure of one candidate cancels no sibling call, there is no
\* early exit on the first success, and the winner is the maximum over all
\* candidates, also when the best candidate's call completes last.
C21_RanksAfterAll ==
    /\ Ranked(v2) \/ Evaluated(v2) => AllCompleted(v2)
    /\ Ranked(v3) \/ Evaluated(v3) => AllCompleted(v3)
    /\ Returned(v2) /\ ~v2.ret.q.isSplit => v2.ret.q.amountOutRaw = BestSingleOut(v2)
    /\ Returned(v3) /\ ~v3.ret.q.isSplit => v3.ret.q.amountOutRaw = BestSingleOut(v3)

\* one candidate's call threw, others answered, and the call that completed
\* last answered more than all of them: it is the winner
C21_Witness ==
    /\ Returned(v2) /\ v2.lateBest /\ Len(v2.cands) >= 5
    /\ \E i, j \in 1..Len(v2.res) :
          /\ v2.res[i].threw
          /\ j > i /\ v2.res[j].out > 0 /\ v2.res[j].out < v2.ret.q.amountOutRaw
    /\ v2.ret.q.amountOutRaw = BestSingleOut(v2)

----------------------------------------------------------------------------
(* C22 *)

\* the shapes invoked through staticCall
StaticShapes == {SingleLegacy, SingleStruct, MultiStatic}

\* C22: every call the v3 quoter issues to the quoter contract is a static
\* call; no non-static invocation of a quote function is issued, also after
\* a static call has failed or timed out.
C22_OnlyStaticCalls ==
    Evaluating /\ req.venue = "pcs-v3" =>
        \A k \in 1..Len(Issued) : Issued[k] \in StaticShapes

----------------------------------------------------------------------------
(* Symbol resolution: a quoter started on symbols in either case, some not in *)
(* the table, with and without ADDR_XYZ in the environment, with and without  *)
(* a well-formed quoter address                                               *)

ResolveSymbols == {"usdt", "USDT", "BTCB", "XYZ", "xyz"}

\* ADDR_XYZ set to a well-formed address
OverrideXYZ == [s \in {"XYZ"} |-> <<"c0de", "M">>]

InitResolve ==
    /\ req \in {Request(entry, from, to, 200, "false", FALSE, HopsUndef, <<>>, "undef", "undef") :
                  entry \in {"v2", "v3"}, from \in ResolveSymbols, to \in ResolveSymbols}
    /\ env \in {Environment(<<>>, addr, DefaultFeeTiers, quoter, FALSE) :
                  addr \in {NoOverride, OverrideXYZ}, quoter \in BOOLEAN}
    /\ v2 = IdleProc
    /\ v3 = IdleProc
    /\ top = TopInit
    /\ dec = NoFetches
    /\ sim = NoSimulation

NextResolve == CallV2 \/ CallV3 \/ ReturnQuoter

SpecResolve == InitResolve /\ [][NextResolve]_vars

----------------------------------------------------------------------------
(* C23 *)

\* the symbol names no asset: in either case it is XYZ, which the built-in
\* table does not hold, and the environment gives no address for it
Unresolved(sym) == sym \in {"XYZ", "xyz"} /\ "XYZ" \notin DOMAIN env.addr

UnknownAssetRequest == Unresolved(req.fromSymbol) \/ Unresolved(req.toSymbol)

\* the quoter has been called
Called(pr) == pr.pc # "idle"

\* the quoter failed with err, having asked for no decimals and no quote
FailedBeforeCalls(pr, err) ==
    /\ pr.pc = "done" /\ pr.ret.st = "err" /\ pr.ret.err = err
    /\ pr.decimalsOf = <<>> /\ pr.res = <<>>

\* C23 as stated: when fromSymbol or toSymbol does not resolve, each quoter
\* fails with the unknown-asset error before any decimals or venue call.
C23_UnknownAssetAlways ==
    UnknownAssetRequest =>
        /\ Called(v2) => FailedBeforeCalls(v2, "unknown-asset")
        /\ Called(v3) => FailedBeforeCalls(v3, "unknown-asset")

\* C23: when fromSymbol or toSymbol does not resolve, each quoter fails before
\* any decimals or venue call: the v2 quoter with the unknown-asset error, the
\* v3 quoter with the unknown-asset error when its quoter address is well
\* formed and with the quoter-unavailable error when it is not.
C23_UnknownAssetFirst ==
    UnknownAssetRequest =>
        /\ Called(v2) => FailedBeforeCalls(v2, "unknown-asset")
        /\ Called(v3) =>
              FailedBeforeCalls(v3, IF env.quoter THEN "unknown-asset"
                                    ELSE "quoter-unavailable")

\* the v2 quoter was asked for usdt -> xyz without ADDR_XYZ and its caller
\* holds the unknown-asset rejection
C23_Witness ==
    /\ req.entry = "v2" /\ req.fromSymbol = "usdt" /\ req.toSymbol = "xyz"
    /\ UnknownAssetRequest
    /\ top.pc = "done" /\ top.ret.st = "err" /\ top.ret.err = "unknown-asset"
    /\ FailedBeforeCalls(v2, "unknown-asset")

----------------------------------------------------------------------------
(* C24 *)

\* syms names path: same length, fromSymbol first, toSymbol last, and every
\* address between them under a symbol that resolves to it
WellNamed(path, syms) ==
    /\ Len(syms) = Len(path)
    /\ syms[1] = ToUpperCase(req.fromSymbol)
    /\ syms[Len(syms)] = ToUpperCase(req.toSymbol)
    /\ \A k \in 2..(Len(path) - 1) :
          /\ syms[k] # "UNKNOWN"
          /\ Lower(getKnownTokenAddress(env, syms[k])) = Lower(path[k])

QuoteWellNamed(q) ==
    IF q.isSplit
    THEN \A k \in 1..Len(q.parts) : WellNamed(q.parts[k].path, q.parts[k].pathSymbols)
    ELSE WellNamed(q.path, q.pathSymbols)

\* C24: in every returned single-route or split quote pathSymbols has the
\* length of path, starts with fromSymbol, ends with toSymbol and names every
\* intermediate address by its asset symbol, none of the preferred
\* intermediates being rendered as 'UNKNOWN'.
C24_PathSymbols ==
    /\ Returned(v2) => QuoteWellNamed(v2.ret.q)
    /\ Returned(v3) => QuoteWellNamed(v3.ret.q)

----------------------------------------------------------------------------
(* C25 *)

\* the amount call k of the evaluation answered with, 0 when it threw
AnsweredAt(k) == IF top.q.log[k].o.ok THEN top.q.log[k].o.v ELSE 0

\* the amounts the calls of the given shapes answered with
AmountsOf(shapes) ==
    {AnsweredAt(k) : k \in {j \in 1..Len(top.q.log) : top.q.log[j].shape \in shapes}}

\* the single-hop shape gave n: one of its calls answered n, or n is 0
SingleGave(n) == n \in AmountsOf({SingleLegacy, SingleStruct}) \cup {0}

\* the ranking evaluation of a two-asset v3 route has returned
TwoAssetRanked ==
    /\ Evaluating /\ top.pc = "done"
    /\ req.venue = "pcs-v3" /\ req.phase = "rank" /\ Len(req.tokens) = 2

\* C25: for a two-asset v3 route the evaluated output is the amount of the
\* encoded multi-hop call when that is non-zero and the amount of the
\* single-hop call otherwise: it is non-zero whenever one of the two shapes
\* answers a non-zero amount, and the failure of one shape alone does not
\* zero the route.
C25_EitherShape ==
    TwoAssetRanked =>
        /\ \A n \in AmountsOf({MultiStatic, MultiPlain}) : n > 0 => top.q.out = n
        /\ AmountsOf({MultiStatic, MultiPlain}) \subseteq {0} =>
              /\ SingleGave(top.q.out)
              /\ \A n \in AmountsOf({SingleLegacy, SingleStruct}) : n > 0 => top.q.out > 0
        /\ top.q.out > 0 \/ AmountsOf(StaticShapes \cup {MultiPlain}) \subseteq {0}

\* both multi-hop calls threw and the single-hop call had answered 2: the
\* route's output is 2
C25_Witness ==
    /\ TwoAssetRanked
    /\ \E k \in 1..Len(top.q.log) : top.q.log[k].shape = MultiStatic /\ Failed(k)
    /\ \E k \in 1..Len(top.q.log) : top.q.log[k].shape = MultiPlain /\ Failed(k)
    /\ AmountsOf({SingleLegacy}) = {2}
    /\ top.q.out = 2

----------------------------------------------------------------------------
(* The venue calls of a split search: the loop over the steps with the two   *)
(* evaluations of a step as they issue their calls                           *)

\* one route evaluation of a step: the calls that have ended, the call in
\* flight, and whether the evaluation has returned
EvalIssued(r) == [log |-> <<>>, inflight |-> nextCall(r, <<>>), done |-> FALSE]

\* the two routes of the search as evaluations of the split phase
searchRoute(r, k) ==
    [venue |-> r.venue, phase |-> "split", tokens |-> r.routes[k]]

\* Promise.all over the two evaluations of step p: both are started, each
\* issuing its first call.  calls counts the venue calls issued, waits the
\* most calls one evaluation has had to wait through to their failure
issueSearchStep(r, q, p) ==
    [q EXCEPT !.p = p,
              !.evals = <<EvalIssued(searchRoute(r, 1)), EvalIssued(searchRoute(r, 2))>>,
              !.calls = @ + 2]

SearchInit == [p |-> 0, evals |-> <<>>, calls |-> 0, waits |-> 0, overlap |-> FALSE]

\* await Promise.all: both evaluations of the step have returned
stepComplete(evals) == \A k \in 1..2 : evals[k].done

\* a venue call ends for the split search: it answers, or throws
SearchOutcomes(shape) == ShapeOutcomes(shape) \cap {Threw, Answer(1)}

SearchRoutePairs ==
    {<<<<KNOWN_TOKENS["USDT"], KNOWN_TOKENS["BTCB"]>>,
       <<KNOWN_TOKENS["USDT"], DEFAULT_WBNB, KNOWN_TOKENS["BTCB"]>>>>,
     <<<<KNOWN_TOKENS["USDT"], DEFAULT_WBNB, KNOWN_TOKENS["BTCB"]>>,
       <<KNOWN_TOKENS["USDT"], KNOWN_TOKENS["USDC"], KNOWN_TOKENS["BTCB"]>>>>}

InitSearch ==
    /\ req \in {[entry |-> "search", venue |-> v, routes |-> rs, amountInRaw |-> 105] :
                  v \in {"pcs-v2", "pcs-v3"}, rs \in SearchRoutePairs}
    /\ env = Environment(<<>>, NoOverride, DefaultFeeTiers, TRUE, FALSE)
    /\ v2 = IdleProc
    /\ v3 = IdleProc
    /\ top = [TopInit EXCEPT !.q = SearchInit]
    /\ dec = NoFetches
    /\ sim = NoSimulation

\* the loop is entered: the evaluations of the first step are started
BeginSearch ==
    /\ req.entry = "search" /\ top.pc = "init" /\ top.q.p = 0
    /\ top' = [top EXCEPT !.q = issueSearchStep(req, top.q, Steps)]
    /\ UNCHANGED <<req, env, v2, v3, dec, sim>>

\* the call in flight of evaluation k ends; the evaluation issues its next
\* call or returns
SearchCallEnds(k) ==
    /\ req.entry = "search" /\ top.pc = "init" /\ top.q.p > 0
    /\ ~top.q.evals[k].done
    /\ \E o \in SearchOutcomes(top.q.evals[k].inflight) :
          LET ev == top.q.evals[k]
              log == Append(ev.log, [shape |-> ev.inflight, o |-> o])
              next == nextCall(searchRoute(req, k), log)
              failed == Cardinality({j \in 1..Len(log) : ~log[j].o.ok})
          IN  top' = [top EXCEPT
                        !.q.evals[k] = [log |-> log, inflight |-> next,
                                        done |-> next = "none"],
                        !.q.calls = IF next = "none" THEN @ ELSE @ + 1,
                        !.q.waits = Max(@, failed)]
    /\ UNCHANGED <<req, env, v2, v3, dec, sim>>

\* both evaluations of the step returned: the loop goes to the next step, or
\* ends after the last
SearchStepDone ==
    /\ req.entry = "search" /\ top.pc = "init" /\ top.q.p > 0
    /\ stepComplete(top.q.evals)
    /\ LET q == [top.q EXCEPT !.overlap = @ \/ \E k \in 1..2 : ~top.q.evals[k].done]
       IN  top' = IF lastStep(top.q.p)
                  THEN [top EXCEPT !.pc = "done", !.q = q]
                  ELSE [top EXCEPT !.q = issueSearchStep(req, q, top.q.p + Steps)]
    /\ UNCHANGED <<req, env, v2, v3, dec, sim>>

NextSearch == BeginSearch \/ (\E k \in 1..2 : SearchCallEnds(k)) \/ SearchStepDone

SpecSearch == InitSearch /\ [][NextSearch]_vars

----------------------------------------------------------------------------
(* C26 *)

Searching == req.entry = "search" /\ top.q.p > 0

\* C26: the steps of the split search are evaluated one after another, both
\* evaluations of a step returning before a call of the next step is issued;
\* the two evaluations of a step are issued together; each step issues
\* exactly 2 venue calls, a full search 18, and no evaluation waits through
\* more than one call that fails or times out.
C26_TwoCallsPerStep ==
    Searching =>
        /\ ~top.q.overlap
        /\ \A k \in 1..2 : top.q.evals[k].log # <<>> \/ top.q.evals[k].inflight # "none"
        /\ top.q.calls = 2 * (top.q.p \div Steps)
        /\ top.q.waits <= 1
        /\ top.pc = "done" => top.q.calls = 18

----------------------------------------------------------------------------
(* C27 *)

\* the evaluation of a two-asset v3 route at a split amount has returned
TwoAssetSplitScored ==
    /\ Evaluating /\ top.pc = "done"
    /\ req.venue = "pcs-v3" /\ req.phase = "split" /\ Len(req.tokens) = 2

\* C27: in the v3 split search a two-asset route is scored by the procedure
\* of the ranking step: the encoded multi-hop call is asked as well, its
\* non-zero amount is the score, and the route is not scored 0 merely because
\* the single-hop shape fails.
C27_SplitScoresAsRanking ==
    TwoAssetSplitScored =>
        /\ \E k \in 1..Len(Issued) : Issued[k] = MultiStatic
        /\ \A n \in AmountsOf({MultiStatic, MultiPlain}) : n > 0 => top.q.out = n


----------------------------------------------------------------------------
(* The simulation run and the GET /api/reset request *)

\* the lists fetchCoreMarketsSortedBySupplyAPY answers with, best market first
MarketLists ==
    {<<>>,
     <<Market("wBETH", 900), Market("USDC", 500)>>,
     <<Market("USDT", 540), Market("USDC", 500)>>,
     <<Market("USDC", 500), Market("wBETH", 300)>>}

\* the yields of a tick and the gas fee of a switch, in USD
YieldsUSD == {0, 10}
GasFeesUSD == {0, 3}

\* the configurations of a run; those of more ticks than are followed are left out
Schedule(pollIntervalSec, hours, ticks, continuous) ==
    [pollIntervalSec |-> pollIntervalSec, hours |-> hours, ticks |-> ticks,
     continuous |-> continuous]

Schedules ==
    {Schedule(1800, NumUndef, Num(2, 1), FALSE), Schedule(1800, NumUndef, Num(5, 2), FALSE),
     Schedule(1800, NumUndef, Num(1, 2), FALSE), Schedule(1800, Num(1, 2), Num(2, 1), FALSE),
     Schedule(1800, Num(1, 2), NumUndef, FALSE), Schedule(1800, Num(1, 1), NumUndef, FALSE),
     Schedule(43200, Num(1, 2), NumUndef, FALSE), Schedule(43200, NumUndef, NumUndef, FALSE),
     Schedule(1800, Num(1, 1), NumUndef, TRUE), Schedule(1800, Num(0, 1), NumUndef, FALSE),
     Schedule(1800, Num(1, 1), Num(-1, 1), FALSE)}

\* the configurations of the given base assets and thresholds
ConfigsOf(assets) ==
    {c \in {[entry |-> "simulate", amountUSD |-> 10000, baseAssetSymbol |-> a[1],
             minNetDiffBps |-> a[2], pollIntervalSec |-> s.pollIntervalSec,
             hours |-> s.hours, ticks |-> s.ticks, continuous |-> s.continuous] :
                a \in assets, s \in Schedules} :
        plannedTicks(c) <= MaxTicks}

SimulationConfigs == ConfigsOf({<<"USDC", 0>>, <<"USDC", 200>>, <<"wbeth", 0>>})

InitSim ==
    /\ req \in SimulationConfigs
    /\ env = Environment(<<>>, NoOverride, DefaultFeeTiers, TRUE, FALSE)
    /\ v2 = IdleProc
    /\ v3 = IdleProc
    /\ top = TopInit
    /\ dec = NoFetches
    /\ sim = [NoSimulation EXCEPT !.pc = "boot"]

simulating == req.entry = "simulate"

others == <<req, env, v2, v3, top, dec>>

\* runDryRunSimulation up to the loop: the state of a fresh start, the planned
\* ticks and the start event
SimStart ==
    /\ simulating /\ sim.pc = "boot"
    /\ sim' = [sim EXCEPT !.pc = "loop", !.state = freshState(req),
                          !.before = freshState(req),
                          !.planned = plannedTicks(req),
                          !.actions = Append(@, Event("start", sim.gen))]
    /\ UNCHANGED others

\* the head of the loop: while (true) for a continuous run, i < plannedTicks
\* otherwise; runOneTick is entered up to isResetRequested
LoopHead ==
    /\ simulating /\ sim.pc = "loop"
    /\ IF isContinuous(req) THEN sim.ticks < MaxTicks ELSE TRUE
    /\ sim' = [sim EXCEPT !.pc = IF isContinuous(req) \/ sim.i < sim.planned
                                 THEN "flag" ELSE "summary"]
    /\ UNCHANGED others

\* isResetRequested answers: with the flag the state is reset and the start
\* event appended
TickCheckFlag ==
    /\ simulating /\ sim.pc = "flag"
    /\ IF sim.flag
       THEN sim' = [sim EXCEPT !.pc = "clear", !.state = freshState(req),
                               !.gen = @ + 1, !.fresh = TRUE,
                               !.actions = Append(@, Event("start", sim.gen + 1))]
       ELSE sim' = [sim EXCEPT !.pc = "markets"]
    /\ UNCHANGED others

\* clearResetFlag, after the start event is written
TickClearFlag ==
    /\ simulating /\ sim.pc = "clear"
    /\ sim' = [sim EXCEPT !.pc = "markets", !.flag = FALSE]
    /\ UNCHANGED others

\* fetchCoreMarketsSortedBySupplyAPY throws, and the catch appends the error event
TickMarketsThrow ==
    /\ simulating /\ sim.pc = "markets"
    /\ sim' = [sim EXCEPT !.pc = "end", !.actions = Append(@, Event("error", sim.gen))]
    /\ UNCHANGED others

\* fetchCoreMarketsSortedBySupplyAPY answers: without markets a line is
\* appended and the tick returns after its delay; with markets the yield is
\* accrued and the balance record appended
TickMarkets ==
    /\ simulating /\ sim.pc = "markets"
    /\ \E markets \in MarketLists, gain \in YieldsUSD :
        IF markets = <<>>
        THEN /\ gain = 0
             /\ sim' = [sim EXCEPT !.pc = "end",
                                   !.actions = Append(@, Event("note", sim.gen))]
        ELSE sim' = [sim EXCEPT !.pc = "fees", !.markets = markets,
                                !.state.positionUSD = @ + gain,
                                !.state.cumulativeYieldUSD = @ + gain,
                                !.balance = Append(@, [v |-> sim.state.positionUSD + gain,
                                                       gen |-> sim.gen])]
    /\ UNCHANGED others

\* the price or the gas estimate throws, and the catch appends the error event
TickFeesThrow ==
    /\ simulating /\ sim.pc = "fees"
    /\ sim' = [sim EXCEPT !.pc = "end", !.actions = Append(@, Event("error", sim.gen))]
    /\ UNCHANGED others

\* the fees of the switch are estimated and the tick event appended
TickFees ==
    /\ simulating /\ sim.pc = "fees"
    /\ \E gasFeeUSD \in GasFeesUSD :
        sim' = [sim EXCEPT !.pc = "decide",
                           !.f = tickFigures(sim.state, sim.markets, gasFeeUSD,
                                                req.minNetDiffBps),
                           !.actions = Append(@, Event("tick", sim.gen))]
    /\ UNCHANGED others

\* after the tick event: the switch, with its event, or nothing
TickDecide ==
    /\ simulating /\ sim.pc = "decide"
    /\ IF switches(sim.state, sim.f)
       THEN sim' = [sim EXCEPT !.pc = "end", !.state = switched(sim.state, sim.f),
                               !.actions = Append(@, Event("switch", sim.gen))]
       ELSE sim' = [sim EXCEPT !.pc = "end"]
    /\ UNCHANGED others

\* the end of runOneTick: the delay, after the snapshot or, without markets,
\* before the return
TickEnd ==
    /\ simulating /\ sim.pc = "end"
    /\ sim' = [sim EXCEPT !.pc = "loop", !.i = @ + 1, !.ticks = @ + 1,
                          !.before = sim.state, !.fresh = FALSE,
                          !.markets = <<>>, !.f = NoFigures]
    /\ UNCHANGED others

\* after the loop: the summary event
Summary ==
    /\ simulating /\ sim.pc = "summary"
    /\ sim' = [sim EXCEPT !.pc = "done", !.summaries = @ + 1,
                          !.actions = Append(@, Event("summary", sim.gen))]
    /\ UNCHANGED others

\* GET /api/reset while the run goes on: the actions log is truncated
ResetTruncateActions ==
    /\ simulating /\ sim.http = "none"
    /\ sim.pc \notin {"boot", "done"}
    /\ sim' = [sim EXCEPT !.http = "actions", !.actions = <<>>]
    /\ UNCHANGED others

\* the balance log is truncated
ResetTruncateBalance ==
    /\ simulating /\ sim.http = "actions"
    /\ sim' = [sim EXCEPT !.http = "balance", !.balance = <<>>]
    /\ UNCHANGED others

\* the reset flag is written and the request answered
ResetWriteFlag ==
    /\ simulating /\ sim.http = "balance"
    /\ sim' = [sim EXCEPT !.http = "done", !.flag = TRUE]
    /\ UNCHANGED others

NextSim ==
    \/ SimStart \/ LoopHead \/ TickCheckFlag \/ TickClearFlag
    \/ TickMarketsThrow \/ TickMarkets \/ TickFeesThrow \/ TickFees
    \/ TickDecide \/ TickEnd \/ Summary
    \/ ResetTruncateActions \/ ResetTruncateBalance \/ ResetWriteFlag

SpecSim == InitSim /\ [][NextSim]_vars


----------------------------------------------------------------------------
(* C28 *)

\* a tick is over, its delay apart
TickOver == simulating /\ sim.pc = "end"

\* the tick had its figures, the switch paid and the best market was not the
\* market held
SwitchingTick ==
    /\ sim.f # NoFigures
    /\ sim.f.profitable
    /\ sim.f.bestAsset # sim.f.currentAsset

\* the asset or a counter of the switches is not what it was in s
Moved(s) ==
    \/ sim.state.currentAssetSymbol # s.currentAssetSymbol
    \/ sim.state.switches > s.switches
    \/ sim.state.cumulativeFeesUSD > s.cumulativeFeesUSD
    \/ sim.state.cumulativeGasUSD > s.cumulativeGasUSD
    \/ sim.state.cumulativeSwapUSD > s.cumulativeSwapUSD

\* the switch of the tick, made from s
SwitchedFrom(s) ==
    /\ sim.state.currentAssetSymbol = sim.f.bestAsset
    /\ sim.state.switches = s.switches + 1
    /\ sim.state.cumulativeGasUSD = s.cumulativeGasUSD + sim.f.gasFeeUSD
    /\ sim.state.cumulativeSwapUSD = s.cumulativeSwapUSD + sim.f.swapFeeUSD
    /\ sim.state.cumulativeFeesUSD =
          s.cumulativeFeesUSD + sim.f.gasFeeUSD + sim.f.swapFeeUSD
    /\ sim.state.positionUSD = sim.f.positionUSD - (sim.f.gasFeeUSD + sim.f.swapFeeUSD)

FeesAddUp ==
    sim.state.cumulativeFeesUSD = sim.state.cumulativeGasUSD + sim.state.cumulativeSwapUSD

WorkedFrom == IF sim.fresh THEN freshState(req) ELSE sim.before

----------------------------------------------------------------------------
(* C29 *)

\* a step of the run, the request apart
RunStep ==
    \/ SimStart \/ LoopHead \/ TickCheckFlag \/ TickClearFlag
    \/ TickMarketsThrow \/ TickMarkets \/ TickFeesThrow \/ TickFees
    \/ TickDecide \/ TickEnd \/ Summary

\* the runs of every schedule, of one base asset and threshold
InitSchedule ==
    /\ InitSim
    /\ req \in ConfigsOf({<<"USDC", 0>>})

\* the event loop runs the continuation of every await that settled
SpecSchedule == InitSchedule /\ [][NextSim]_vars /\ WF_vars(RunStep)

\* the continuous flag, hours <= 0 or ticks <= 0
ContinuousRun ==
    \/ req.continuous
    \/ req.hours.k = "num" /\ req.hours.n <= 0
    \/ req.ticks.k = "num" /\ req.ticks.n <= 0

\* the ticks when given and > 0, a part of a tick not counting; otherwise those
\* of the hours, 24 when none are given, and 1 at least
TicksToDo ==
    IF req.ticks.k = "num" /\ req.ticks.n > 0 THEN req.ticks.n \div req.ticks.d
    ELSE LET h == IF req.hours.k = "num" THEN req.hours ELSE Num(24, 1)
             sec == h.n * 3600
             per == h.d * req.pollIntervalSec
             whole == sec \div per
         IN  IF sec <= per THEN 1
             ELSE IF whole * per = sec THEN whole ELSE whole + 1

ErrorsLogged == Cardinality({k \in 1..Len(sim.actions) : sim.actions[k].type = "error"})

RunCounts ==
    simulating =>
        /\ sim.summaries <= 1
        /\ ContinuousRun => sim.pc \notin {"summary", "done"} /\ sim.summaries = 0
        /\ ~ContinuousRun =>
            /\ sim.ticks <= TicksToDo
            /\ sim.pc \in {"summary", "done"} => sim.ticks = TicksToDo
            /\ sim.summaries = IF sim.pc = "done" THEN 1 ELSE 0

\* C29: a run that is not continuous performs the planned ticks, whether they
\* throw or not, appends one summary event after them and ends; a continuous
\* run reaches no summary and does not end
C29_PlannedTicksThenSummary ==
    /\ []RunCounts
    /\ []((simulating /\ ~ContinuousRun) => <>(sim.pc = "done"))

\* a run of two ticks ended with its summary, one tick having thrown
C29_Witness ==
    /\ simulating /\ sim.pc = "done" /\ sim.ticks = 2 /\ req.ticks.d = 2
    /\ sim.http = "none"
    /\ ErrorsLogged = 1
    /\ sim.actions[Len(sim.actions)].type = "summary"


----------------------------------------------------------------------------
(* C30 *)

\* the request has truncated the actions log, the balance log, of a run that
\* keeps ticking
ActionsTruncated == simulating /\ ContinuousRun /\ sim.http \in {"actions", "balance", "done"}
BalanceTruncated == simulating /\ ContinuousRun /\ sim.http \in {"balance", "done"}

\* the records of a log computed from the state as it was before the reset
StaleRecords(log, types) ==
    {k \in 1..Len(log) : log[k].gen = 0 /\ log[k].type \in types}

\* C30: once the request has truncated the logs of a run that keeps ticking,
\* the first event of the actions log is the start event of the reset, and
\* neither log holds a tick, switch or balance record computed from the state
\* before the reset
C30_StartEventFirst ==
    /\ ActionsTruncated =>
        /\ sim.actions # <<>> => sim.actions[1] = Event("start", 1)
        /\ StaleRecords(sim.actions, {"tick", "switch"}) = {}
    /\ BalanceTruncated =>
        StaleRecords([k \in 1..Len(sim.balance) |->
                        [type |-> "balance", gen |-> sim.balance[k].gen]],
                     {"balance"}) = {}

====
